---- MODULE Spec2Model ----
(***************************************************************************)
(* Model of the orchestration engine of multi-ai-pro-mcp                   *)
(* (OrchestrationEngine, src/install.sh lines 266-695), of the context     *)
(* store it writes to (ContextManager, src/src/db/context-manager.ts) and  *)
(* of the completion provider it calls (AIProvider,                        *)
(* src/src/providers/openrouter.ts).                                       *)
(*                                                                         *)
(* Text is a sequence of string tokens: a template literal is the          *)
(* concatenation of its fixed parts and of the texts it interpolates, so   *)
(* "the prompt contains the response verbatim" is a statement about        *)
(* sub-sequences.  An optional value (request.models, options.maxRounds,   *)
(* request.useContext) is None or Some(v).                                 *)
(***************************************************************************)
EXTENDS Integers, Sequences, FiniteSets, TLC

\* ------------------------------------------------------------------ bounds
\* longest model list a caller passes in request.models
MaxModels == 2
\* largest options.maxRounds a caller passes
MaxRoundsArg == 2
\* a new orchestrate call starts only while the store holds at most this many messages
MaxStored == 0
\* the new_conversation tool is called only while the identifier it takes is at most this
MaxConversationId == 3
\* the store operations are called directly only while the store holds fewer
\* messages than this
MaxMessages == 3
\* longest list of available models the specialist selection is run on
MaxAvailable == 3
\* most ContextManager calls that are in flight at the same time
MaxInFlight == 2

\* ------------------------------------------------------------- optional values
None == <<>>
Some(v) == <<v>>

\* ------------------------------------------------------------------ text
RECURSIVE join(_, _)
\* Array.prototype.join over an array of texts
join(texts, sep) ==
  IF Len(texts) = 0 THEN <<>>
  ELSE IF Len(texts) = 1 THEN texts[1]
  ELSE texts[1] \o sep \o join(Tail(texts), sep)

\* String.prototype.includes: text t occurs verbatim in text s
Contains(s, t) ==
  \E k \in 0..(Len(s) - Len(t)) : \A j \in 1..Len(t) : s[k + j] = t[j]

\* Array.prototype.includes
includes(list, x) == \E k \in 1..Len(list) : list[k] = x

\* ------------------------------------------------------------------ inputs
Prompts == { <<"X">> }

ModelPool == { "anthropic/claude-opus-4", "deepseek/deepseek-v3" }

RECURSIVE ListsUpTo(_)
ListsUpTo(n) ==
  IF n = 0 THEN { <<>> }
  ELSE LET shorter == ListsUpTo(n - 1)
       IN  shorter \cup { Append(l, m) : l \in { s \in shorter : Len(s) = n - 1 }, m \in ModelPool }

ModelLists == ListsUpTo(MaxModels)

Strategies == { "sequential", "parallel", "debate", "consensus", "specialist" }
\* a strategy string outside the OrchestrationStrategy enum
UnknownStrategies == { "roundrobin" }

UseContextValues == { None, Some(TRUE), Some(FALSE) }

MaxRoundsValues == { None } \cup { Some(n) : n \in 0..MaxRoundsArg }

\* a caller's list from which the specialist selection can take two models
SpecialistLists == { << "anthropic/claude-opus-4", "openai/gpt-4o" >> }

\* OrchestrationRequest; options.maxRounds is read by the debate strategy only
Requests ==
  { [prompt |-> p, strategy |-> s, models |-> ms, useContext |-> uc, maxRounds |-> mr] :
      p \in Prompts, s \in (Strategies \cup UnknownStrategies) \ {"debate"},
      ms \in ({None} \cup { Some(l) : l \in ModelLists }),
      uc \in UseContextValues, mr \in {None} }
  \cup
  { [prompt |-> p, strategy |-> "debate", models |-> ms, useContext |-> uc, maxRounds |-> mr] :
      p \in Prompts,
      ms \in ({None} \cup { Some(l) : l \in ModelLists }),
      uc \in UseContextValues, mr \in MaxRoundsValues }
  \cup
  { [prompt |-> p, strategy |-> "specialist", models |-> Some(l), useContext |-> uc,
     maxRounds |-> None] :
      p \in Prompts, l \in SpecialistLists, uc \in UseContextValues }

\* PROGRAMMING_MODELS.map(m => m.id)
defaultModels ==
  << "deepseek/deepseek-v3", "deepseek/deepseek-r1-0528", "anthropic/claude-sonnet-4",
     "google/gemini-2.5-pro", "google/gemini-2.5-flash", "x-ai/grok-3-beta",
     "openai/gpt-4.1", "meta-llama/llama-4-maverick",
     "qwen/qwen-2.5-coder-32b-instruct", "mistralai/codestral-2501" >>

\* Array.prototype.slice(0, n)
slice0(list, n) == SubSeq(list, 1, IF n < Len(list) THEN n ELSE Len(list))

VARIABLES
  \* ContextManager: PostgreSQL tables, Redis lists, the current-conversation pointer
  conversations, messages, cache, currentConversationId,
  \* the orchestrate call: position, request, chosen models, outcome
  pc, request, models, result,
  \* locals of the strategy methods
  history, responses, currentPrompt, idx,
  promises, settleOrder, synthesis, consensus,
  maxRounds, round, roundResponses, rounds, conclusion,
  analysis, specialists,
  \* provider: the calls issued by this orchestrate call, in the order sent, and
  \* what the provider answered to those it has settled (call number -> outcome)
  calls, outcomes,
  \* the tool-call handler: the tool call being handled, what the handler has
  \* answered to it, and how far the lazy initialization of the server got
  toolCall, answers, initialized

storeVars == << conversations, messages, cache, currentConversationId >>
callVars == << pc, request, models, result >>
localVars ==
  << history, responses, currentPrompt, idx, promises, settleOrder, synthesis, consensus,
     maxRounds, round, roundResponses, rounds, conclusion, analysis, specialists >>
\* the locals sequentialProcessing does not have
otherLocals ==
  << promises, settleOrder, synthesis, consensus, maxRounds, round, roundResponses, rounds,
     conclusion, analysis, specialists >>
providerVars == << calls, outcomes >>

\* the calls sent and not yet settled
inflight == { k \in 1..Len(calls) : k \notin DOMAIN outcomes }
handlerVars == << toolCall, answers, initialized >>
vars == << storeVars, callVars, localVars, providerVars, handlerVars >>

\* ------------------------------------------------------------ context store
\* limit = 50, the default of getConversationHistory(conversationId?, limit)
HistoryLimit == 50

\* a falsy currentConversationId (the empty string)
NoConversation == 0

\* uuidv4(): an identifier no conversation has yet
uuidv4 ==
  LET used == conversations \cup {currentConversationId}
  IN  1 + (CHOOSE m \in used : \A u \in used : u <= m)

\* redis lRange(key, 0, -1): an absent key is the empty list
lRange(c) == IF c \in DOMAIN cache THEN cache[c] ELSE <<>>

\* the row INSERT INTO messages ... RETURNING * gives back
Message(conversationId, role, content, model, metadata) ==
  [conversationId |-> conversationId, role |-> role, content |-> content,
   model |-> model, metadata |-> metadata]

\* SELECT * FROM messages WHERE conversation_id = c ORDER BY timestamp ASC
RECURSIVE rowsOf(_, _)
rowsOf(table, c) ==
  IF Len(table) = 0 THEN <<>>
  ELSE IF table[1].conversationId = c THEN <<table[1]>> \o rowsOf(Tail(table), c)
  ELSE rowsOf(Tail(table), c)

\* how one store operation can end: it succeeds, or its PostgreSQL statement
\* raises because the database fails, or (addMessage only) the INSERT raises
\* because the conversation row it references does not exist, or the Redis
\* command after the INSERT raises
StoreOutcomes == { "ok", "dbError", "redisError", "fkError" }

\* ContextManager.startNewConversation, as run inside addMessage
startNewConversation(convs) == convs \cup {uuidv4}

\* ContextManager.addMessage: the message goes to the current conversation; the
\* INSERT needs the conversation row (foreign key), then the row is pushed to
\* the Redis list of the conversation
addMessage(role, content, model, metadata, out) ==
  LET conv == IF currentConversationId = NoConversation THEN uuidv4
              ELSE currentConversationId
      convs == IF currentConversationId = NoConversation
               THEN startNewConversation(conversations) ELSE conversations
      saved == Message(conv, role, content, model, metadata)
  IN  /\ out \in {"ok", "redisError"} => conv \in convs
      /\ out = "fkError" => conv \notin convs
      /\ currentConversationId' = conv
      /\ conversations' = convs
      /\ messages' = IF out \in {"dbError", "fkError"} THEN messages
                     ELSE Append(messages, saved)
      /\ cache' = IF out = "ok" THEN (conv :> Append(lRange(conv), saved)) @@ cache
                  ELSE cache

\* ContextManager.startNewConversation: the pointer moves to a new identifier,
\* then the conversation row is inserted, then the cache key of the new
\* conversation (which no list has yet) is deleted
startNewConversation_effect(out) ==
  /\ out \in {"ok", "dbError", "redisError"}
  /\ currentConversationId' = uuidv4
  /\ conversations' = (IF out = "dbError" THEN conversations
                       ELSE startNewConversation(conversations))
  /\ UNCHANGED << messages, cache >>

\* ContextManager.getConversationHistory(conversationId, limit): the value
\* returned. A non-empty Redis list is returned whole (lRange 0 -1); only the
\* PostgreSQL query has the LIMIT
getConversationHistoryOf(conversationId, limit) ==
  LET cached == lRange(conversationId)
  IN  IF Len(cached) > 0 THEN cached
      ELSE slice0(rowsOf(messages, conversationId), limit)

\* ContextManager.getConversationHistory(conversationId, limit): a miss fills
\* the Redis list with the rows of the query
getConversationHistoryOf_effect(conversationId, limit, out) ==
  LET rows == getConversationHistoryOf(conversationId, limit)
  IN  /\ out \in {"ok", "dbError"}
      /\ cache' = IF out = "ok" /\ Len(lRange(conversationId)) = 0 /\ Len(rows) > 0
                  THEN (conversationId :> rows) @@ cache
                  ELSE cache
      /\ UNCHANGED << conversations, messages, currentConversationId >>

\* ContextManager.getConversationHistory(): the current conversation, limit 50
getConversationHistory == getConversationHistoryOf(currentConversationId, HistoryLimit)

\* ContextManager.getConversationHistory(): a miss fills the Redis list
getConversationHistory_effect(out) ==
  getConversationHistoryOf_effect(currentConversationId, HistoryLimit, out)

\* a summary that drops the Redis lists on its way
getSummary_clearing(out) ==
  /\ out \in {"ok", "dbError"}
  /\ cache' = << >>
  /\ UNCHANGED << conversations, messages, currentConversationId >>

\* ContextManager.getSummary(): reads only
getSummary(out) ==
  /\ out \in {"ok", "dbError"}
  /\ UNCHANGED storeVars

\* -------------------------------------------------------------- provider
\* what a provider call can come back with: a text, or a failure
Failure == [ok |-> FALSE, text |-> <<>>]
Success(text) == [ok |-> TRUE, text |-> text]

\* the text of the k-th provider call of an orchestrate call
reply(k) == << "reply" \o ToString(k) >>

\* response.choices[0]?.message?.content || '' of a completion: the reply, and
\* for the derived-text calls also the empty text
ProviderOutcomes(call, k) ==
  {Failure, Success(reply(k))}
  \cup (IF call.step \in {"synthesis", "conclusion", "consensus"} THEN {Success(<<>>)} ELSE {})

\* AIProvider.complete(prompt, {model}): one user message
complete(prompt, model, step) ==
  [method |-> "complete", model |-> model, step |-> step,
   messages |-> << [role |-> "user", content |-> prompt] >>]

\* AIProvider.completeWithContext(messages, {model})
completeWithContext(msgs, model, step) ==
  [method |-> "completeWithContext", model |-> model, step |-> step, messages |-> msgs]

\* the call is sent: it is in flight until the provider settles it
Issue(call) ==
  /\ calls' = Append(calls, call)
  /\ UNCHANGED outcomes

\* the provider settles call k with outcome o
Settle(k, o) ==
  /\ outcomes' = (k :> o) @@ outcomes
  /\ UNCHANGED calls

\* --------------------------------------------------------------- engine
NoResult == [status |-> "none"]

\* no call is running
NoRequest ==
  [prompt |-> <<>>, strategy |-> "", models |-> None, useContext |-> None, maxRounds |-> None]

\* a JavaScript value as JSON.parse returns it: its type and, for an object, its
\* three properties ("undefined" when the object has no such property)
JSValue(t, primary, secondary, complexity) ==
  [t |-> t, primary |-> primary, secondary |-> secondary, complexity |-> complexity]

JSNull == JSValue("null", "undefined", "undefined", "undefined")

\* the locals of the strategy methods before any of them ran
InitLocals ==
  /\ history = <<>> /\ responses = <<>> /\ currentPrompt = <<>> /\ idx = 0
  /\ promises = <<>> /\ settleOrder = <<>> /\ synthesis = <<>> /\ consensus = <<>>
  /\ maxRounds = 0 /\ round = 0 /\ roundResponses = <<>> /\ rounds = <<>>
  /\ conclusion = <<>> /\ analysis = JSNull /\ specialists = <<>>

\* the locals go out of scope when the call is over
ResetLocals ==
  /\ history' = <<>> /\ responses' = <<>> /\ currentPrompt' = <<>> /\ idx' = 0
  /\ promises' = <<>> /\ settleOrder' = <<>> /\ synthesis' = <<>> /\ consensus' = <<>>
  /\ maxRounds' = 0 /\ round' = 0 /\ roundResponses' = <<>> /\ rounds' = <<>>
  /\ conclusion' = <<>> /\ analysis' = JSNull /\ specialists' = <<>>

\* a rejected promise escapes orchestrate
Throw(error) ==
  /\ pc' = "done"
  /\ result' = [status |-> "error", error |-> error, at |-> pc]

\* request.useContext !== undefined: an explicit false counts as set
UsesContext_notUndefined(req) == req.useContext # None

\* request.useContext !== false
UsesContext(req) == req.useContext # Some(FALSE)

\* { role: msg.role, content: msg.content }
ContextMessage(msg) == [role |-> msg.role, content |-> msg.content]

\* OrchestrationResult: a field the strategy does not set is None
OrchestrationResult(strategy, ms, resp, rnds, synth, cons, concl) ==
  [status |-> "ok", strategy |-> strategy, models |-> ms, responses |-> resp,
   rounds |-> rnds, synthesis |-> synth, consensus |-> cons,
   conclusion |-> concl, conversationId |-> None]

ProviderResponse(model, response) == [model |-> model, response |-> response]

\* request.models || this.defaultModels.slice(0, 3): an empty array is truthy
selectModels(req) ==
  IF req.models # None THEN req.models[1] ELSE slice0(defaultModels, 3)

\* a switch whose default falls into the first case instead of throwing
dispatch_defaultSequential(strategy) ==
  CASE strategy = "parallel" -> "parallelProcessing"
    [] strategy = "debate" -> "debateMode"
    [] strategy = "consensus" -> "consensusMode"
    [] strategy = "specialist" -> "specialistRouting"
    [] OTHER -> "sequentialProcessing"

\* the switch of orchestrate: the label of the strategy method, or "throw"
dispatch(strategy) ==
  CASE strategy = "sequential" -> "sequentialProcessing"
    [] strategy = "parallel" -> "parallelProcessing"
    [] strategy = "debate" -> "debateMode"
    [] strategy = "consensus" -> "consensusMode"
    [] strategy = "specialist" -> "specialistRouting"
    [] OTHER -> "throw"

\* no tool call is being handled: the engine is called directly
NoToolCall == [name |-> "", args |-> [valid |-> FALSE]]

\* line 291: the call is entered and the model list chosen
orchestrate_begin(req) ==
  /\ request' = req
  /\ models' = selectModels(req)
  /\ pc' = "orchestrate_addMessage"
  /\ calls' = <<>> /\ outcomes' = << >>
  /\ UNCHANGED << storeVars, result, localVars >>

\* orchestrate(request), called on the engine directly
orchestrate(req) ==
  /\ pc = "idle"
  /\ Len(messages) <= MaxStored
  /\ orchestrate_begin(req)
  /\ UNCHANGED handlerVars

\* the user message is not written: the switch is reached with the store untouched
orchestrate_addMessage_skipped ==
  /\ pc = "orchestrate_addMessage"
  /\ pc' = "orchestrate_switch"
  /\ UNCHANGED << storeVars, result, request, models, localVars, providerVars >>
  /\ UNCHANGED handlerVars

\* lines 293-299: the user message
orchestrate_addMessage ==
  /\ pc = "orchestrate_addMessage"
  /\ IF UsesContext(request)
     THEN \E out \in StoreOutcomes :
            /\ addMessage("user", request.prompt, "null", None, out)
            /\ IF out = "ok" THEN pc' = "orchestrate_switch" /\ UNCHANGED result
               ELSE Throw("store")
     ELSE pc' = "orchestrate_switch" /\ UNCHANGED << storeVars, result >>
  /\ UNCHANGED << request, models, localVars, providerVars >>
  /\ UNCHANGED handlerVars

\* lines 303-321: the switch
orchestrate_switch ==
  /\ pc = "orchestrate_switch"
  /\ IF dispatch(request.strategy) = "throw"
     THEN Throw("Unknown orchestration strategy")
     ELSE pc' = dispatch(request.strategy) /\ UNCHANGED result
  /\ UNCHANGED << storeVars, request, models, localVars, providerVars >>
  /\ UNCHANGED handlerVars

\* the summary read inside a try/catch: on a failure the result goes out
\* without its conversation id
orchestrate_getSummary_caught ==
  /\ pc = "orchestrate_getSummary"
  /\ \E out \in StoreOutcomes :
       /\ getSummary(out)
       /\ result' = (IF out = "ok"
                     THEN [result EXCEPT !.conversationId = Some(currentConversationId)]
                     ELSE result)
       /\ pc' = "done"
  /\ UNCHANGED << request, models, localVars, providerVars >>
  /\ UNCHANGED handlerVars

\* lines 323-327: the conversation id is attached to the result
orchestrate_getSummary ==
  /\ pc = "orchestrate_getSummary"
  /\ \E out \in StoreOutcomes :
       /\ getSummary(out)
       /\ IF out = "ok"
          THEN /\ result' = [result EXCEPT !.conversationId = Some(currentConversationId)]
               /\ pc' = "done"
          ELSE Throw("store")
  /\ UNCHANGED << request, models, localVars, providerVars >>
  /\ UNCHANGED handlerVars

\* the caller takes the result or the error; the engine keeps nothing of the call
return ==
  /\ pc = "done"
  /\ toolCall.name = NoToolCall.name
  /\ pc' = "idle"
  /\ result' = NoResult
  /\ request' = NoRequest
  /\ models' = <<>>
  /\ ResetLocals
  /\ calls' = <<>> /\ outcomes' = << >>
  /\ UNCHANGED storeVars
  /\ UNCHANGED handlerVars

\* ---------------------------------------------------- sequentialProcessing
\* a refinement prompt that names the previous model but leaves its response out
refinePrompt_noResponse(prompt, model, response) ==
  <<"Original prompt: ">> \o prompt \o <<"\n\nPrevious ", model, " response:\n">>
    \o <<"\n\nPlease improve, refine, or add to this response.">>

\* line 375: the refinement prompt for the next model
refinePrompt(prompt, model, response) ==
  <<"Original prompt: ">> \o prompt \o <<"\n\nPrevious ", model, " response:\n">>
    \o response \o <<"\n\nPlease improve, refine, or add to this response.">>

\* lines 339-352: history, then the current prompt
buildMessages(hist, prompt) ==
  [k \in 1..Len(hist) |-> ContextMessage(hist[k])] \o << [role |-> "user", content |-> prompt] >>

\* lines 331-336
sequentialProcessing ==
  /\ pc = "sequentialProcessing"
  /\ IF UsesContext(request)
     THEN \E out \in StoreOutcomes :
            /\ getConversationHistory_effect(out)
            /\ IF out = "ok"
               THEN /\ history' = getConversationHistory
                    /\ pc' = "sequential_loop" /\ UNCHANGED result
               ELSE Throw("store") /\ UNCHANGED history
     ELSE /\ history' = <<>>
          /\ pc' = "sequential_loop"
          /\ UNCHANGED << storeVars, result >>
  /\ responses' = <<>>
  /\ currentPrompt' = request.prompt
  /\ idx' = 1
  /\ UNCHANGED << request, models, providerVars, otherLocals >>
  /\ UNCHANGED handlerVars

\* lines 338-357 and 378-382: the next model is called, or the loop is over
sequential_loop ==
  /\ pc = "sequential_loop"
  /\ IF idx <= Len(models)
     THEN /\ Issue(completeWithContext(buildMessages(history, currentPrompt), models[idx], "model"))
          /\ pc' = "sequential_await"
          /\ UNCHANGED result
     ELSE /\ result' = OrchestrationResult("sequential", models, Some(responses),
                                           None, None, None, None)
          /\ pc' = "orchestrate_getSummary"
          /\ UNCHANGED providerVars
  /\ UNCHANGED << storeVars, request, models, localVars >>
  /\ UNCHANGED handlerVars

\* a failed call undoes what the orchestrate call has written so far
sequential_await_rollback ==
  /\ pc = "sequential_await"
  /\ \E o \in ProviderOutcomes(calls[Len(calls)], Len(calls)) :
       /\ Settle(Len(calls), o)
       /\ IF o.ok
          THEN /\ responses' = Append(responses, ProviderResponse(models[idx], o.text))
               /\ pc' = "sequential_save" /\ UNCHANGED << result, storeVars >>
          ELSE /\ Throw("provider") /\ UNCHANGED responses
               /\ messages' = (IF UsesContext(request)
                               THEN SubSeq(messages, 1, Len(messages) - Len(responses) - 1)
                               ELSE messages)
               /\ cache' = << >>
               /\ UNCHANGED << conversations, currentConversationId >>
  /\ UNCHANGED << request, models, history, currentPrompt, idx, otherLocals >>
  /\ UNCHANGED handlerVars

\* the call inside a try/catch: a failed model is skipped and the loop goes on
sequential_await_caught ==
  /\ pc = "sequential_await"
  /\ \E o \in ProviderOutcomes(calls[Len(calls)], Len(calls)) :
       /\ Settle(Len(calls), o)
       /\ IF o.ok
          THEN /\ responses' = Append(responses, ProviderResponse(models[idx], o.text))
               /\ pc' = "sequential_save" /\ UNCHANGED << result, idx >>
          ELSE /\ pc' = "sequential_loop" /\ idx' = idx + 1
               /\ UNCHANGED << result, responses >>
  /\ UNCHANGED << storeVars, request, models, history, currentPrompt, otherLocals >>
  /\ UNCHANGED handlerVars

\* a failed call whose rejection is never delivered: the loop stays suspended
sequential_await_hanging ==
  /\ pc = "sequential_await"
  /\ \E o \in ProviderOutcomes(calls[Len(calls)], Len(calls)) :
       /\ Settle(Len(calls), o)
       /\ IF o.ok
          THEN /\ responses' = Append(responses, ProviderResponse(models[idx], o.text))
               /\ pc' = "sequential_save"
          ELSE pc' = "suspended" /\ UNCHANGED responses
  /\ UNCHANGED << result, storeVars, request, models, history, currentPrompt, idx,
                  otherLocals >>
  /\ UNCHANGED handlerVars

\* a failed call is sent once more before the error escapes
sequential_await_retry ==
  /\ pc = "sequential_await"
  /\ \E o \in ProviderOutcomes(calls[Len(calls)], Len(calls)) :
       /\ Settle(Len(calls), o)
       /\ IF o.ok
          THEN /\ responses' = Append(responses, ProviderResponse(models[idx], o.text))
               /\ pc' = "sequential_save" /\ UNCHANGED result
          ELSE IF Len(calls) = idx
          THEN pc' = "sequential_loop" /\ UNCHANGED << result, responses >>
          ELSE Throw("provider") /\ UNCHANGED responses
  /\ UNCHANGED << storeVars, request, models, history, currentPrompt, idx, otherLocals >>
  /\ UNCHANGED handlerVars

\* lines 354-363: the response arrives, or the call fails and the error escapes
sequential_await ==
  /\ pc = "sequential_await"
  /\ \E o \in ProviderOutcomes(calls[Len(calls)], Len(calls)) :
       /\ Settle(Len(calls), o)
       /\ IF o.ok
          THEN /\ responses' = Append(responses, ProviderResponse(models[idx], o.text))
               /\ pc' = "sequential_save" /\ UNCHANGED result
          ELSE Throw("provider") /\ UNCHANGED responses
  /\ UNCHANGED << storeVars, request, models, history, currentPrompt, idx, otherLocals >>
  /\ UNCHANGED handlerVars

\* the write not awaited: the loop goes on to the next model without the
\* assistant message in the store
sequential_save_unsaved ==
  /\ pc = "sequential_save"
  /\ LET last == responses[Len(responses)]
     IN  /\ pc' = "sequential_loop" /\ UNCHANGED << storeVars, result >>
         /\ currentPrompt' = refinePrompt(request.prompt, last.model, last.response)
  /\ idx' = idx + 1
  /\ UNCHANGED << request, models, history, responses, providerVars, otherLocals >>
  /\ UNCHANGED handlerVars

\* lines 365-375: the response is saved, the prompt for the next model is built
sequential_save ==
  /\ pc = "sequential_save"
  /\ LET last == responses[Len(responses)]
     IN  /\ IF UsesContext(request)
            THEN \E out \in StoreOutcomes :
                   /\ addMessage("assistant", last.response, last.model, None, out)
                   /\ IF out = "ok" THEN pc' = "sequential_loop" /\ UNCHANGED result
                      ELSE Throw("store")
            ELSE pc' = "sequential_loop" /\ UNCHANGED << storeVars, result >>
         /\ currentPrompt' = refinePrompt(request.prompt, last.model, last.response)
  /\ idx' = idx + 1
  /\ UNCHANGED << request, models, history, responses, providerVars, otherLocals >>
  /\ UNCHANGED handlerVars

\* ------------------------------------------------------ parallelProcessing
\* a promise of models.map(async ...): pending, fulfilled with a
\* ProviderResponse (Some) or with null (None), or rejected
Pending == [state |-> "pending", value |-> None]
Fulfilled(value) == [state |-> "fulfilled", value |-> value]
Rejected == [state |-> "rejected", value |-> None]

\* the arrow function without its try/catch: a failed call rejects the promise
mapModel_uncaught(model, o) ==
  IF o.ok THEN Fulfilled(Some(ProviderResponse(model, o.text))) ELSE Rejected

\* lines 390-419: what the async arrow function of models.map settles to when
\* its provider call has come back with outcome o: the catch turns a failure
\* into null
mapModel(model, o) ==
  IF o.ok THEN Fulfilled(Some(ProviderResponse(model, o.text))) ELSE Fulfilled(None)

\* the values in the order in which the promises were settled
PromiseAll_settleOrder(proms, order) == [k \in 1..Len(order) |-> proms[order[k]].value]

\* Promise.all(promises): the values, in the order of the promises (settleOrder,
\* the order in which they were settled, plays no part)
PromiseAll(proms, order) == [k \in 1..Len(proms) |-> proms[k].value]

RECURSIVE filterBoolean(_)
\* .filter(Boolean): null is dropped, a ProviderResponse is kept
filterBoolean(values) ==
  IF Len(values) = 0 THEN <<>>
  ELSE IF values[1] = None THEN filterBoolean(Tail(values))
  ELSE <<values[1][1]>> \o filterBoolean(Tail(values))

\* models.join(', ')
joinModels(ms) == join([k \in 1..Len(ms) |-> <<ms[k]>>], <<", ">>)

\* responses.map(r => `${r.model}:\n${r.response}`).join("\n\n---\n\n")
formatResponses(resp) ==
  join([k \in 1..Len(resp) |-> <<resp[k].model, ":\n">> \o resp[k].response],
       <<"\n\n---\n\n">>)

\* lines 633-643
synthesisPrompt(resp, originalPrompt) ==
  <<"Original question: ">> \o originalPrompt
    \o <<"\n\nI have received the following responses from different AI models:\n\n">>
    \o formatResponses(resp)
    \o <<"\n\nPlease synthesize these responses into a comprehensive, balanced answer that:\n1. Incorporates the best insights from each model\n2. Resolves any contradictions\n3. Provides a clear, actionable response\n4. Highlights any important considerations or caveats">>

\* lines 645-648
synthesizeResponses(resp, originalPrompt) ==
  complete(synthesisPrompt(resp, originalPrompt), "anthropic/claude-3.5-sonnet", "synthesis")

\* lines 386-388
parallelProcessing ==
  /\ pc = "parallelProcessing"
  /\ IF UsesContext(request)
     THEN \E out \in StoreOutcomes :
            /\ getConversationHistory_effect(out)
            /\ IF out = "ok"
               THEN /\ history' = getConversationHistory
                    /\ pc' = "parallel_map" /\ UNCHANGED result
               ELSE Throw("store") /\ UNCHANGED history
     ELSE /\ history' = <<>>
          /\ pc' = "parallel_map"
          /\ UNCHANGED << storeVars, result >>
  /\ UNCHANGED << request, models, providerVars, responses, currentPrompt, idx, otherLocals >>
  /\ UNCHANGED handlerVars

\* lines 390-419, up to each await: every model's call is sent, none waits for another
parallel_map ==
  /\ pc = "parallel_map"
  /\ calls' = calls \o [k \in 1..Len(models) |->
                          completeWithContext(buildMessages(history, request.prompt),
                                              models[k], "model")]
  /\ UNCHANGED outcomes
  /\ promises' = [k \in 1..Len(models) |-> Pending]
  /\ settleOrder' = <<>>
  /\ pc' = "parallel_all"
  /\ UNCHANGED << storeVars, request, models, result, history, responses, currentPrompt, idx,
                  synthesis, consensus, maxRounds, round, roundResponses, rounds, conclusion,
                  analysis, specialists >>
  /\ UNCHANGED handlerVars

\* the index in calls of the call for models[k], while the batch is awaited
callOf(k) == Len(calls) - Len(models) + k

\* lines 405-418: one call of the batch settles; its failure is caught and gives null
parallel_settle(k) ==
  /\ pc = "parallel_all"
  /\ promises[k].state = "pending"
  /\ \E o \in ProviderOutcomes(calls[callOf(k)], callOf(k)) :
       /\ Settle(callOf(k), o)
       /\ promises' = [promises EXCEPT ![k] = mapModel(models[k], o)]
  /\ settleOrder' = Append(settleOrder, k)
  /\ UNCHANGED << storeVars, callVars, history, responses, currentPrompt, idx,
                  synthesis, consensus, maxRounds, round, roundResponses, rounds, conclusion,
                  analysis, specialists >>
  /\ UNCHANGED handlerVars

\* the batch awaited with Promise.race: the synthesis call is sent as soon as
\* one call of the batch has settled
parallel_all_race ==
  /\ pc = "parallel_all"
  /\ \E k \in 1..Len(promises) : promises[k].state = "fulfilled"
  /\ LET resp == filterBoolean(PromiseAll(promises, settleOrder))
     IN  /\ responses' = resp
         /\ Issue(synthesizeResponses(resp, request.prompt))
  /\ pc' = "synthesizeResponses_await"
  /\ UNCHANGED result
  /\ UNCHANGED << storeVars, request, models, history, currentPrompt, idx,
                  promises, settleOrder, synthesis, consensus, maxRounds, round,
                  roundResponses, rounds, conclusion, analysis, specialists >>
  /\ UNCHANGED handlerVars

\* lines 421-424: Promise.all rejects as soon as one promise is rejected, and is
\* fulfilled once all are; then the synthesis call is sent
parallel_all ==
  /\ pc = "parallel_all"
  /\ IF \E k \in 1..Len(promises) : promises[k].state = "rejected"
     THEN Throw("provider") /\ UNCHANGED << responses, providerVars >>
     ELSE /\ \A k \in 1..Len(promises) : promises[k].state = "fulfilled"
          /\ LET resp == filterBoolean(PromiseAll(promises, settleOrder))
             IN  /\ responses' = resp
                 /\ Issue(synthesizeResponses(resp, request.prompt))
          /\ pc' = "synthesizeResponses_await"
          /\ UNCHANGED result
  /\ UNCHANGED << storeVars, request, models, history, currentPrompt, idx,
                  promises, settleOrder, synthesis, consensus, maxRounds, round,
                  roundResponses, rounds, conclusion, analysis, specialists >>
  /\ UNCHANGED handlerVars

\* the synthesis call inside a try/catch: a failure leaves the synthesis empty
synthesizeResponses_await_caught ==
  /\ pc = "synthesizeResponses_await"
  /\ \E o \in ProviderOutcomes(calls[Len(calls)], Len(calls)) :
       /\ Settle(Len(calls), o)
       /\ synthesis' = (IF o.ok THEN o.text ELSE <<>>)
       /\ pc' = "parallel_save" /\ UNCHANGED result
  /\ UNCHANGED << storeVars, request, models, history, responses, currentPrompt, idx,
                  promises, settleOrder, consensus, maxRounds, round, roundResponses, rounds,
                  conclusion, analysis, specialists >>
  /\ UNCHANGED handlerVars

\* line 424: the synthesis arrives, or the call fails and the error escapes
synthesizeResponses_await ==
  /\ pc = "synthesizeResponses_await"
  /\ \E o \in ProviderOutcomes(calls[Len(calls)], Len(calls)) :
       /\ Settle(Len(calls), o)
       /\ IF o.ok
          THEN synthesis' = o.text /\ pc' = "parallel_save" /\ UNCHANGED result
          ELSE Throw("provider") /\ UNCHANGED synthesis
  /\ UNCHANGED << storeVars, request, models, history, responses, currentPrompt, idx,
                  promises, settleOrder, consensus, maxRounds, round, roundResponses, rounds,
                  conclusion, analysis, specialists >>
  /\ UNCHANGED handlerVars

\* the parallel run without its side effect: the synthesis is returned, not saved
parallel_save_unsaved ==
  /\ pc = "parallel_save"
  /\ IF request.strategy = "consensus"
     THEN pc' = "consensus_find" /\ UNCHANGED result
     ELSE /\ result' = OrchestrationResult("parallel", models, Some(responses),
                                           None, Some(synthesis), None, None)
          /\ pc' = "orchestrate_getSummary"
  /\ UNCHANGED << storeVars, request, models, providerVars, localVars >>
  /\ UNCHANGED handlerVars

\* lines 426-441: a non-empty synthesis is saved; the result goes to orchestrate,
\* or to consensusMode when that is the caller
parallel_save ==
  /\ pc = "parallel_save"
  /\ \E out \in StoreOutcomes :
       /\ IF UsesContext(request) /\ synthesis # <<>>
          THEN addMessage("assistant", synthesis, "synthesis",
                          << <<"models">> \o joinModels(models) >>, out)
          ELSE out = "ok" /\ UNCHANGED storeVars
       /\ IF out # "ok" THEN Throw("store")
          ELSE IF request.strategy = "consensus"
          THEN pc' = "consensus_find" /\ UNCHANGED result
          ELSE /\ result' = OrchestrationResult("parallel", models, Some(responses),
                                                None, Some(synthesis), None, None)
               /\ pc' = "orchestrate_getSummary"
  /\ UNCHANGED << request, models, providerVars, localVars >>
  /\ UNCHANGED handlerVars

\* ----------------------------------------------------------- consensusMode
\* lines 678-688
consensusPrompt(resp, originalPrompt) ==
  <<"Original question: ">> \o originalPrompt
    \o <<"\n\nDifferent AI models provided these responses:\n\n">>
    \o formatResponses(resp)
    \o <<"\n\nAnalyze these responses and provide:\n1. Common themes and points of agreement\n2. Key differences in approach or content\n3. A consensus view that represents the shared understanding\n4. Any important caveats or considerations">>

\* lines 690-693
findConsensus(resp, originalPrompt) ==
  complete(consensusPrompt(resp, originalPrompt), "google/gemini-2.5-pro-preview", "consensus")

\* line 500: the whole parallel strategy runs first
consensusMode ==
  /\ pc = "consensusMode"
  /\ pc' = "parallelProcessing"
  /\ UNCHANGED << storeVars, request, models, result, providerVars, localVars >>
  /\ UNCHANGED handlerVars

\* lines 501-503: the consensus call is sent over the parallel responses
consensus_find ==
  /\ pc = "consensus_find"
  /\ Issue(findConsensus(responses, request.prompt))
  /\ pc' = "findConsensus_await"
  /\ UNCHANGED << storeVars, request, models, result, localVars >>
  /\ UNCHANGED handlerVars

\* line 503: the consensus arrives, or the call fails and the error escapes
findConsensus_await ==
  /\ pc = "findConsensus_await"
  /\ \E o \in ProviderOutcomes(calls[Len(calls)], Len(calls)) :
       /\ Settle(Len(calls), o)
       /\ IF o.ok
          THEN consensus' = o.text /\ pc' = "consensus_save" /\ UNCHANGED result
          ELSE Throw("provider") /\ UNCHANGED consensus
  /\ UNCHANGED << storeVars, request, models, history, responses, currentPrompt, idx,
                  promises, settleOrder, synthesis, maxRounds, round, roundResponses, rounds,
                  conclusion, analysis, specialists >>
  /\ UNCHANGED handlerVars

\* lines 505-520
consensus_save ==
  /\ pc = "consensus_save"
  /\ \E out \in StoreOutcomes :
       /\ IF UsesContext(request)
          THEN addMessage("assistant", consensus, "consensus",
                          << <<"models">> \o joinModels(models) >>, out)
          ELSE out = "ok" /\ UNCHANGED storeVars
       /\ IF out # "ok" THEN Throw("store")
          ELSE /\ result' = OrchestrationResult("consensus", models, Some(responses),
                                                None, None, Some(consensus), None)
               /\ pc' = "orchestrate_getSummary"
  /\ UNCHANGED << request, models, providerVars, localVars >>
  /\ UNCHANGED handlerVars

\* -------------------------------------------------------------- debateMode
\* the default applied whatever the request says
maxRoundsOf_alwaysDefault(req) == 3

\* request.options?.maxRounds || 3: absent or 0 gives 3
maxRoundsOf(req) ==
  IF req.maxRounds = None \/ req.maxRounds[1] = 0 THEN 3 ELSE req.maxRounds[1]

\* round.responses.map(r => `${r.model}: ${r.response}`).join("\n\n")
formatRound(rnd) ==
  <<"Round ", ToString(rnd.round), ":\n">>
    \o join([k \in 1..Len(rnd.responses) |->
               <<rnd.responses[k].model, ": ">> \o rnd.responses[k].response],
            <<"\n\n">>)

\* lines 651-657
formatDebateHistory(rnds) ==
  join([k \in 1..Len(rnds) |-> formatRound(rnds[k])], <<"\n\n---\n\n">>)

\* a prompt that carries the last completed round only
debatePrompt_lastRoundOnly(rnd, debateContext, rnds) ==
  IF rnd = 0 THEN debateContext
  ELSE debateContext \o <<"\n\nPrevious responses in the debate:\n">>
         \o formatDebateHistory(<< rnds[Len(rnds)] >>)
         \o <<"\n\nProvide your perspective, counter-arguments, or refinements:">>

\* lines 453-455: the prompt of a call of round `rnd` (0-based)
debatePrompt(rnd, debateContext, rnds) ==
  IF rnd = 0 THEN debateContext
  ELSE debateContext \o <<"\n\nPrevious responses in the debate:\n">>
         \o formatDebateHistory(rnds)
         \o <<"\n\nProvide your perspective, counter-arguments, or refinements:">>

\* lines 660-669
conclusionPrompt(rnds, originalPrompt) ==
  <<"Original topic: ">> \o originalPrompt \o <<"\n\nDebate history:\n">>
    \o formatDebateHistory(rnds)
    \o <<"\n\nBased on this debate, provide a balanced conclusion that:\n1. Summarizes the key points raised by each model\n2. Identifies areas of agreement and disagreement\n3. Provides a well-reasoned final perspective\n4. Suggests the most practical approach or solution">>

\* lines 671-674
generateDebateConclusion(rnds, originalPrompt) ==
  complete(conclusionPrompt(rnds, originalPrompt), "openai/gpt-4o", "conclusion")

DebateRound(n, resp) == [round |-> n, responses |-> resp]

\* lines 445-447
debateMode ==
  /\ pc = "debateMode"
  /\ maxRounds' = maxRoundsOf(request)
  /\ rounds' = <<>>
  /\ round' = 0
  /\ roundResponses' = <<>>
  /\ idx' = 1
  /\ pc' = "debate_loop"
  /\ UNCHANGED << storeVars, request, models, result, providerVars, history, responses,
                  currentPrompt, promises, settleOrder, synthesis, consensus, conclusion,
                  analysis, specialists >>
  /\ UNCHANGED handlerVars

\* lines 449-476: the next model of the round is called, or the round is closed,
\* or the rounds are over and the conclusion call is sent
debate_loop ==
  /\ pc = "debate_loop"
  /\ IF round >= maxRounds
     THEN /\ Issue(generateDebateConclusion(rounds, request.prompt))
          /\ pc' = "generateDebateConclusion_await"
          /\ UNCHANGED << round, roundResponses, rounds, idx >>
     ELSE IF idx > Len(models)
     THEN /\ rounds' = Append(rounds, DebateRound(round + 1, roundResponses))
          /\ round' = round + 1
          /\ roundResponses' = <<>>
          /\ idx' = 1
          /\ pc' = "debate_loop"
          /\ UNCHANGED providerVars
     ELSE /\ Issue(complete(debatePrompt(round, request.prompt, rounds), models[idx], "model"))
          /\ pc' = "debate_await"
          /\ UNCHANGED << round, roundResponses, rounds, idx >>
  /\ UNCHANGED << storeVars, request, models, result, history, responses, currentPrompt,
                  promises, settleOrder, synthesis, consensus, maxRounds, conclusion,
                  analysis, specialists >>
  /\ UNCHANGED handlerVars

\* the call inside a try/catch: a failed model is left out of the round
debate_await_caught ==
  /\ pc = "debate_await"
  /\ \E o \in ProviderOutcomes(calls[Len(calls)], Len(calls)) :
       /\ Settle(Len(calls), o)
       /\ roundResponses' = (IF o.ok
                             THEN Append(roundResponses, ProviderResponse(models[idx], o.text))
                             ELSE roundResponses)
       /\ idx' = idx + 1
       /\ pc' = "debate_loop" /\ UNCHANGED result
  /\ UNCHANGED << storeVars, request, models, history, responses, currentPrompt,
                  promises, settleOrder, synthesis, consensus, maxRounds, round, rounds,
                  conclusion, analysis, specialists >>
  /\ UNCHANGED handlerVars

\* lines 457-466: the response arrives, or the call fails and the error escapes
debate_await ==
  /\ pc = "debate_await"
  /\ \E o \in ProviderOutcomes(calls[Len(calls)], Len(calls)) :
       /\ Settle(Len(calls), o)
       /\ IF o.ok
          THEN /\ roundResponses' = Append(roundResponses, ProviderResponse(models[idx], o.text))
               /\ idx' = idx + 1
               /\ pc' = "debate_loop" /\ UNCHANGED result
          ELSE Throw("provider") /\ UNCHANGED << roundResponses, idx >>
  /\ UNCHANGED << storeVars, request, models, history, responses, currentPrompt,
                  promises, settleOrder, synthesis, consensus, maxRounds, round, rounds,
                  conclusion, analysis, specialists >>
  /\ UNCHANGED handlerVars

\* line 476: the conclusion arrives, or the call fails and the error escapes
generateDebateConclusion_await ==
  /\ pc = "generateDebateConclusion_await"
  /\ \E o \in ProviderOutcomes(calls[Len(calls)], Len(calls)) :
       /\ Settle(Len(calls), o)
       /\ IF o.ok
          THEN conclusion' = o.text /\ pc' = "debate_save" /\ UNCHANGED result
          ELSE Throw("provider") /\ UNCHANGED conclusion
  /\ UNCHANGED << storeVars, request, models, history, responses, currentPrompt, idx,
                  promises, settleOrder, synthesis, consensus, maxRounds, round,
                  roundResponses, rounds, analysis, specialists >>
  /\ UNCHANGED handlerVars

\* the conclusion saved without its metadata
debate_save_noMetadata ==
  /\ pc = "debate_save"
  /\ \E out \in StoreOutcomes :
       /\ IF UsesContext(request)
          THEN addMessage("assistant", conclusion, "debate-conclusion", None, out)
          ELSE out = "ok" /\ UNCHANGED storeVars
       /\ IF out # "ok" THEN Throw("store")
          ELSE /\ result' = OrchestrationResult("debate", models, None, Some(rounds),
                                                None, None, Some(conclusion))
               /\ pc' = "orchestrate_getSummary"
  /\ UNCHANGED << request, models, providerVars, localVars >>
  /\ UNCHANGED handlerVars

\* lines 478-496
debate_save ==
  /\ pc = "debate_save"
  /\ \E out \in StoreOutcomes :
       /\ IF UsesContext(request)
          THEN addMessage("assistant", conclusion, "debate-conclusion",
                          << <<"models">> \o joinModels(models),
                             <<"rounds", ToString(maxRounds)>> >>, out)
          ELSE out = "ok" /\ UNCHANGED storeVars
       /\ IF out # "ok" THEN Throw("store")
          ELSE /\ result' = OrchestrationResult("debate", models, None, Some(rounds),
                                                None, None, Some(conclusion))
               /\ pc' = "orchestrate_getSummary"
  /\ UNCHANGED << request, models, providerVars, localVars >>
  /\ UNCHANGED handlerVars

\* ------------------------------------------------------- specialistRouting
\* the classification answers of the provider that JSON.parse accepts, with
\* the value it returns for each
JSONTable ==
  { [text |-> <<"null">>, value |-> JSNull],
    [text |-> <<"42">>, value |-> JSValue("number", "undefined", "undefined", "undefined")],
    [text |-> <<"\"coding\"">>,
     value |-> JSValue("string", "undefined", "undefined", "undefined")],
    [text |-> <<"{}">>, value |-> JSValue("object", "undefined", "undefined", "undefined")],
    [text |-> <<"{\"primary\":\"debugging\"}">>,
     value |-> JSValue("object", "debugging", "undefined", "undefined")],
    [text |-> <<"{\"primary\":\"coding\",\"secondary\":\"debugging\",\"complexity\":\"high\"}">>,
     value |-> JSValue("object", "coding", "debugging", "high")],
    [text |-> <<"{\"primary\":\"planning\",\"secondary\":\"coding\",\"complexity\":\"medium\"}">>,
     value |-> JSValue("object", "planning", "coding", "medium")],
    [text |-> <<"{\"primary\":\"analysis\",\"secondary\":\"creative\",\"complexity\":\"low\"}">>,
     value |-> JSValue("object", "analysis", "creative", "low")],
    [text |-> <<"{\"primary\":\"poetry\",\"secondary\":\"coding\",\"complexity\":\"medium\"}">>,
     value |-> JSValue("object", "poetry", "coding", "medium")],
    [text |-> <<"{\"primary\":\"constructor\",\"secondary\":\"coding\",\"complexity\":\"low\"}">>,
     value |-> JSValue("object", "constructor", "coding", "low")] }

\* JSON.parse(text): the value, or a SyntaxError
JSONparse(text) ==
  IF \E e \in JSONTable : e.text = text
  THEN [threw |-> FALSE, value |-> (CHOOSE e \in JSONTable : e.text = text).value]
  ELSE [threw |-> TRUE, value |-> JSNull]

\* a default classification of another category
defaultAnalysis_debugging == JSValue("object", "debugging", "general", "medium")

\* line 578
defaultAnalysis == JSValue("object", "coding", "general", "medium")

\* lines 575-579: try { return JSON.parse(response) } catch { return the default }
parseAnalysis(response) ==
  LET parsed == JSONparse(response)
  IN  IF parsed.threw THEN defaultAnalysis ELSE parsed.value

\* lines 563-568
analysisPrompt(prompt) ==
  <<"Analyze this prompt and categorize it:\n    \"">> \o prompt
    \o <<"\"\n\n    Categories: coding, debugging, architecture, planning, analysis, creative\n\n    Respond with: { \"primary\": \"category\", \"secondary\": \"category\", \"complexity\": \"low|medium|high\" }">>

\* lines 570-573
analyzePromptType(prompt) ==
  complete(analysisPrompt(prompt), "openai/gpt-4o-mini", "classification")

\* lines 586-593
specialistMap ==
  [coding |-> <<"anthropic/claude-opus-4", "deepseek/deepseek-r1", "mistralai/codestral-2501">>,
   debugging |-> <<"deepseek/deepseek-r1", "anthropic/claude-3.5-sonnet", "openai/gpt-4o">>,
   architecture |-> <<"anthropic/claude-opus-4", "openai/gpt-4o", "google/gemini-2.5-pro-preview">>,
   planning |-> <<"openai/gpt-4o", "anthropic/claude-3.5-sonnet", "google/gemini-2.5-pro-preview">>,
   analysis |-> <<"google/gemini-2.5-pro-preview", "anthropic/claude-3.5-sonnet", "deepseek/deepseek-r1">>,
   creative |-> <<"anthropic/claude-3.5-sonnet", "openai/gpt-4o", "google/gemini-2.5-pro-preview">>]

\* property names every object literal inherits from Object.prototype
InheritedProperties == { "constructor", "toString", "valueOf", "hasOwnProperty" }

\* specialistMap[key]: an array, undefined, or an inherited function
lookup(key) ==
  IF key \in DOMAIN specialistMap THEN [kind |-> "array", items |-> specialistMap[key]]
  ELSE IF key \in InheritedProperties THEN [kind |-> "function", items |-> <<>>]
  ELSE [kind |-> "undefined", items |-> <<>>]

\* x || fallback
orElse(looked, fallback) ==
  IF looked.kind = "undefined" THEN [kind |-> "array", items |-> fallback] ELSE looked

\* line 599
numModelsOf(complexity) ==
  IF complexity = "high" THEN 3 ELSE IF complexity = "medium" THEN 2 ELSE 1

Specialist(model, reason) == [model |-> model, reason |-> reason]

\* a find that never finds
found_never(chosen, model) == FALSE

\* specialists.find(s => s.model === model) is truthy
found(chosen, model) == \E k \in 1..Len(chosen) : chosen[k].model = model

RECURSIVE addPrimary(_, _, _, _, _)
\* lines 602-609
addPrimary(candidates, availableModels, numModels, primary, chosen) ==
  IF Len(candidates) = 0 THEN chosen
  ELSE LET model == candidates[1]
       IN  addPrimary(Tail(candidates), availableModels, numModels, primary,
             IF includes(availableModels, model) /\ Len(chosen) < numModels
             THEN Append(chosen, Specialist(model, <<"Selected for ", primary, " tasks">>))
             ELSE chosen)

RECURSIVE addSecondary(_, _, _, _, _)
\* lines 612-619
addSecondary(candidates, availableModels, numModels, secondary, chosen) ==
  IF Len(candidates) = 0 THEN chosen
  ELSE LET model == candidates[1]
       IN  addSecondary(Tail(candidates), availableModels, numModels, secondary,
             IF includes(availableModels, model) /\ ~found(chosen, model)
                /\ Len(chosen) < numModels
             THEN Append(chosen, Specialist(model, <<"Secondary specialist for ", secondary>>))
             ELSE chosen)

\* the selection without its last step, the fallback to the first available model
selectSpecialists_noFallback(an, availableModels) ==
  IF an.t = "null" THEN [threw |-> TRUE, value |-> <<>>]
  ELSE
    LET primarySpecialists == orElse(lookup(an.primary), <<"openai/gpt-4o">>)
        secondarySpecialists == orElse(lookup(an.secondary), <<>>)
        numModels == numModelsOf(an.complexity)
    IN  IF primarySpecialists.kind = "function" \/ secondarySpecialists.kind = "function"
        THEN [threw |-> TRUE, value |-> <<>>]
        ELSE [threw |-> FALSE,
              value |-> addSecondary(secondarySpecialists.items, availableModels, numModels,
                          an.secondary,
                          addPrimary(primarySpecialists.items, availableModels,
                                     numModels, an.primary, <<>>))]

\* lines 582-630: the specialists, or the TypeError of reading a property of
\* null or of iterating a function
selectSpecialists(an, availableModels) ==
  IF an.t = "null" THEN [threw |-> TRUE, value |-> <<>>]
  ELSE
    LET primarySpecialists == orElse(lookup(an.primary), <<"openai/gpt-4o">>)
        secondarySpecialists == orElse(lookup(an.secondary), <<>>)
        numModels == numModelsOf(an.complexity)
    IN  IF primarySpecialists.kind = "function" \/ secondarySpecialists.kind = "function"
        THEN [threw |-> TRUE, value |-> <<>>]
        ELSE
          LET afterPrimary == addPrimary(primarySpecialists.items, availableModels,
                                         numModels, an.primary, <<>>)
              afterSecondary == addSecondary(secondarySpecialists.items, availableModels,
                                             numModels, an.secondary, afterPrimary)
          IN  [threw |-> FALSE,
               value |-> IF Len(afterSecondary) = 0 /\ Len(availableModels) > 0
                         THEN << Specialist(availableModels[1], <<"Default model">>) >>
                         ELSE afterSecondary]

\* what the classification call can come back with
ClassificationOutcomes(k) ==
  {Failure, Success(reply(k))} \cup { Success(e.text) : e \in JSONTable }

\* line 525, lines 570-573: the classification call is sent
specialistRouting ==
  /\ pc = "specialistRouting"
  /\ Issue(analyzePromptType(request.prompt))
  /\ pc' = "analyzePromptType_await"
  /\ UNCHANGED << storeVars, request, models, result, localVars >>
  /\ UNCHANGED handlerVars

\* lines 570-579: the classification arrives and is parsed, or the call fails
analyzePromptType_await ==
  /\ pc = "analyzePromptType_await"
  /\ \E o \in ClassificationOutcomes(Len(calls)) :
       /\ Settle(Len(calls), o)
       /\ IF o.ok
          THEN analysis' = parseAnalysis(o.text) /\ pc' = "specialist_select" /\ UNCHANGED result
          ELSE Throw("provider") /\ UNCHANGED analysis
  /\ UNCHANGED << storeVars, request, models, history, responses, currentPrompt, idx,
                  promises, settleOrder, synthesis, consensus, maxRounds, round,
                  roundResponses, rounds, conclusion, specialists >>
  /\ UNCHANGED handlerVars

\* lines 527-531
specialist_select ==
  /\ pc = "specialist_select"
  /\ LET selected == selectSpecialists(analysis, models)
     IN  IF selected.threw
         THEN Throw("TypeError") /\ UNCHANGED << specialists, responses, idx >>
         ELSE /\ specialists' = selected.value
              /\ responses' = <<>>
              /\ idx' = 1
              /\ pc' = "specialist_loop" /\ UNCHANGED result
  /\ UNCHANGED << storeVars, request, models, providerVars, history, currentPrompt,
                  promises, settleOrder, synthesis, consensus, maxRounds, round,
                  roundResponses, rounds, conclusion, analysis >>
  /\ UNCHANGED handlerVars

\* lines 533-537 and 555-559: the next specialist is called, or the loop is over
specialist_loop ==
  /\ pc = "specialist_loop"
  /\ IF idx <= Len(specialists)
     THEN /\ Issue(complete(request.prompt, specialists[idx].model, "model"))
          /\ pc' = "specialist_await"
          /\ UNCHANGED result
     ELSE /\ result' = OrchestrationResult("specialist",
                          [k \in 1..Len(specialists) |-> specialists[k].model],
                          Some(responses), None, None, None, None)
          /\ pc' = "orchestrate_getSummary"
          /\ UNCHANGED providerVars
  /\ UNCHANGED << storeVars, request, models, localVars >>
  /\ UNCHANGED handlerVars

\* lines 534-543: the response arrives, or the call fails and the error escapes
specialist_await ==
  /\ pc = "specialist_await"
  /\ \E o \in ProviderOutcomes(calls[Len(calls)], Len(calls)) :
       /\ Settle(Len(calls), o)
       /\ IF o.ok
          THEN /\ responses' = Append(responses, ProviderResponse(specialists[idx].model, o.text))
               /\ pc' = "specialist_save" /\ UNCHANGED result
          ELSE Throw("provider") /\ UNCHANGED responses
  /\ UNCHANGED << storeVars, request, models, history, currentPrompt, idx, otherLocals >>
  /\ UNCHANGED handlerVars

\* the write not awaited: the loop goes on to the next specialist without the
\* assistant message in the store
specialist_save_unsaved ==
  /\ pc = "specialist_save"
  /\ pc' = "specialist_loop" /\ UNCHANGED << storeVars, result >>
  /\ idx' = idx + 1
  /\ UNCHANGED << request, models, providerVars, history, responses, currentPrompt,
                  otherLocals >>
  /\ UNCHANGED handlerVars

\* the response saved under a fixed tag instead of the model that gave it
specialist_save_untagged ==
  /\ pc = "specialist_save"
  /\ LET last == responses[Len(responses)]
     IN  IF UsesContext(request)
         THEN \E out \in StoreOutcomes :
                /\ addMessage("assistant", last.response, "specialist",
                              << <<"reason">> \o specialists[idx].reason >>, out)
                /\ IF out = "ok" THEN pc' = "specialist_loop" /\ UNCHANGED result
                   ELSE Throw("store")
         ELSE pc' = "specialist_loop" /\ UNCHANGED << storeVars, result >>
  /\ idx' = idx + 1
  /\ UNCHANGED << request, models, providerVars, history, responses, currentPrompt,
                  otherLocals >>
  /\ UNCHANGED handlerVars

\* lines 545-552
specialist_save ==
  /\ pc = "specialist_save"
  /\ LET last == responses[Len(responses)]
     IN  IF UsesContext(request)
         THEN \E out \in StoreOutcomes :
                /\ addMessage("assistant", last.response, last.model,
                              << <<"reason">> \o specialists[idx].reason >>, out)
                /\ IF out = "ok" THEN pc' = "specialist_loop" /\ UNCHANGED result
                   ELSE Throw("store")
         ELSE pc' = "specialist_loop" /\ UNCHANGED << storeVars, result >>
  /\ idx' = idx + 1
  /\ UNCHANGED << request, models, providerVars, history, responses, currentPrompt,
                  otherLocals >>
  /\ UNCHANGED handlerVars

\* ------------------------------------------------------ the tool-call handler
\* the names the switch of the handler knows
ToolNames ==
  { "ask", "orchestrate", "compare", "new_conversation", "history", "search", "summary" }
\* a name it does not know
UnknownTools == { "nope" }

\* arguments the schema of the tool rejects (a missing prompt, a strategy
\* outside the enum, a limit that is not a number)
InvalidArgs == [valid |-> FALSE]

\* AskSchema.parse: useContext defaults to true, so it is always a boolean
AskArgs ==
  { [valid |-> TRUE, prompt |-> p, model |-> None, useContext |-> uc] :
      p \in Prompts, uc \in BOOLEAN }

\* OrchestrateSchema.parse: the strategy is one of the enum, options are absent
OrchestrateArgs ==
  { [valid |-> TRUE, prompt |-> p, strategy |-> st, models |-> ms, useContext |-> uc] :
      p \in Prompts, st \in Strategies,
      ms \in { None, Some(<< "anthropic/claude-opus-4" >>) }, uc \in BOOLEAN }

\* CompareSchema.parse
CompareArgs ==
  { [valid |-> TRUE, prompt |-> p, models |-> None, useContext |-> uc] :
      p \in Prompts, uc \in BOOLEAN }

\* request.params of a CallToolRequest; the arguments of new_conversation,
\* history and search as NewConversationSchema, HistorySchema and SearchSchema
\* parse them
ToolCalls ==
  { [name |-> "ask", args |-> a] : a \in AskArgs \cup {InvalidArgs} }
  \cup { [name |-> "orchestrate", args |-> a] : a \in OrchestrateArgs \cup {InvalidArgs} }
  \cup { [name |-> "compare", args |-> a] : a \in CompareArgs \cup {InvalidArgs} }
  \cup { [name |-> "new_conversation", args |-> a] :
            a \in { [valid |-> TRUE, title |-> None], InvalidArgs } }
  \cup { [name |-> "history", args |-> a] :
            a \in { [valid |-> TRUE, limit |-> HistoryLimit], InvalidArgs } }
  \cup { [name |-> "search", args |-> a] :
            a \in { [valid |-> TRUE, query |-> p] : p \in Prompts } \cup {InvalidArgs} }
  \cup { [name |-> n, args |-> InvalidArgs] : n \in {"summary"} \cup UnknownTools }

\* the result of a tool call: { content: [{ type: "text", text }] }
TextResult(text) == [type |-> "text", text |-> text]

\* the catch of the handler: `Error: ${errorMessage}`
ErrorText(errorMessage) == << "Error: ", errorMessage >>

\* what a case of the switch hands to its return statement
Plain(text) == [status |-> "ok", text |-> text]

\* the OrchestrationRequest the orchestrate and compare cases build
requestOf(call) ==
  IF call.name = "compare"
  THEN [prompt |-> call.args.prompt, strategy |-> "parallel",
        models |-> Some(IF call.args.models = None THEN slice0(defaultModels, 3)
                        ELSE call.args.models[1]),
        useContext |-> Some(call.args.useContext), maxRounds |-> None]
  ELSE [prompt |-> call.args.prompt, strategy |-> call.args.strategy,
        models |-> call.args.models,
        useContext |-> Some(call.args.useContext), maxRounds |-> None]

\* `### ${r.model}\n${r.response}\n\n` for every response
formatSections(resp) ==
  join([k \in 1..Len(resp) |-> <<"### ", resp[k].model, "\n">> \o resp[k].response \o <<"\n\n">>],
       <<>>)

\* a derived text is printed under its heading when it is not empty
formatDerived(heading, text) ==
  IF text = None \/ text = Some(<<>>) THEN <<>> ELSE <<heading>> \o text[1] \o <<"\n">>

\* formatOrchestrationResult(result)
formatOrchestrationResult(res) ==
  << "# Orchestration Result\n\n", "**Strategy:** ", res.strategy, "\n", "**Models Used:** " >>
    \o joinModels(res.models) \o <<"\n">>
    \o (IF res.conversationId = None THEN <<>>
        ELSE <<"**Conversation ID:** ", ToString(res.conversationId[1]), "\n">>)
    \o <<"\n">>
    \o (IF res.strategy = "debate"
        THEN <<"## Debate Rounds\n\n">>
               \o join([r \in 1..Len(res.rounds[1]) |->
                          <<"### Round ", ToString(r), "\n">>
                            \o formatSections(res.rounds[1][r].responses)], <<>>)
               \o formatDerived("\n## Conclusion\n", res.conclusion)
        ELSE <<"## Responses\n\n">> \o formatSections(res.responses[1])
               \o formatDerived("\n## Synthesis\n", res.synthesis)
               \o formatDerived("\n## Consensus\n", res.consensus))

\* the text of the compare case
formatComparison(prompt, res) ==
  <<"# Model Comparison\n\n**Prompt:** ">> \o prompt \o <<"\n\n">>
    \o formatSections(res.responses[1])
    \o <<"\n\n## Synthesis\n">>
    \o (IF res.synthesis = None \/ res.synthesis = Some(<<>>)
        THEN <<"No synthesis available">> ELSE res.synthesis[1])

\* the identifier startNewConversation would take in a new_conversation call
\* (ensureInitialized may take two before it)
idOfNewConversation == IF initialized = "none" THEN uuidv4 + 2 ELSE uuidv4

\* a CallToolRequest arrives: line 262
callTool(call) ==
  /\ pc = "idle"
  /\ Len(messages) <= MaxStored
  /\ call.name = "new_conversation" => idOfNewConversation <= MaxConversationId
  /\ toolCall' = call
  /\ answers' = <<>>
  /\ pc' = "ensureInitialized"
  /\ UNCHANGED << storeVars, request, models, result, localVars, providerVars, initialized >>

\* how the first initialization can end: it succeeds, redis.connect() rejects,
\* or a statement of createTables raises (logged and swallowed)
InitOutcomes == { "ok", "connectError", "dbError" }

\* SELECT id FROM conversations ORDER BY created_at DESC LIMIT 1
latestConversation(convs) == CHOOSE c \in convs : \A d \in convs : d <= c

\* ensureInitialized(): provider and contextManager are assigned before
\* initialize() is awaited, orchestrator after it; initialize() connects Redis
\* and runs createTables, which adopts the latest conversation or starts the
\* default one
ensureInitialized ==
  /\ pc = "ensureInitialized"
  /\ IF initialized # "none"
     THEN pc' = "tool_switch" /\ UNCHANGED << storeVars, result, initialized >>
     ELSE \E out \in InitOutcomes :
            LET constructed == uuidv4
                started == uuidv4 + 1
            IN  CASE out = "connectError" ->
                       /\ currentConversationId' = constructed
                       /\ initialized' = "partial"
                       /\ Throw("connect")
                       /\ UNCHANGED << conversations, messages, cache >>
                  [] out = "dbError" ->
                       /\ currentConversationId' \in
                            (IF conversations = {} THEN { constructed, started }
                             ELSE { constructed })
                       /\ initialized' = "full"
                       /\ pc' = "tool_switch"
                       /\ UNCHANGED << conversations, messages, cache, result >>
                  [] out = "ok" ->
                       /\ IF conversations # {}
                          THEN /\ currentConversationId' = latestConversation(conversations)
                               /\ UNCHANGED conversations
                          ELSE /\ currentConversationId' = started
                               /\ conversations' = { started }
                       /\ initialized' = "full"
                       /\ pc' = "tool_switch"
                       /\ UNCHANGED << messages, cache, result >>
  /\ UNCHANGED << request, models, localVars, providerVars, toolCall, answers >>

\* lines 267-430: the switch on the tool name and the parse of the arguments;
\* the orchestrate and compare cases enter the engine
tool_switch ==
  /\ pc = "tool_switch"
  /\ IF toolCall.name \notin ToolNames
     THEN /\ Throw("Unknown tool: " \o toolCall.name)
          /\ UNCHANGED << storeVars, request, models, localVars, providerVars >>
     ELSE IF toolCall.name # "summary" /\ ~toolCall.args.valid
     THEN /\ Throw("ZodError")
          /\ UNCHANGED << storeVars, request, models, localVars, providerVars >>
     ELSE IF toolCall.name \in { "orchestrate", "compare" }
     THEN IF initialized = "partial"
          THEN /\ Throw("TypeError")
               /\ UNCHANGED << storeVars, request, models, localVars, providerVars >>
          ELSE orchestrate_begin(requestOf(toolCall))
     ELSE /\ pc' = toolCall.name
          /\ UNCHANGED << storeVars, request, models, result, localVars, providerVars >>
  /\ UNCHANGED handlerVars

\* lines 271-277: the ask case saves the prompt
ask_addMessage ==
  /\ pc = "ask"
  /\ IF toolCall.args.useContext
     THEN \E out \in StoreOutcomes :
            /\ addMessage("user", toolCall.args.prompt, "null", None, out)
            /\ IF out = "ok" THEN pc' = "ask_complete" /\ UNCHANGED result
               ELSE Throw("store")
     ELSE pc' = "ask_complete" /\ UNCHANGED << storeVars, result >>
  /\ UNCHANGED << request, models, localVars, providerVars, handlerVars >>

\* lines 279-292: the history is read, the prompt added, the call sent
ask_complete ==
  /\ pc = "ask_complete"
  /\ \E out \in StoreOutcomes :
       /\ IF toolCall.args.useContext THEN getConversationHistory_effect(out)
          ELSE out = "ok" /\ UNCHANGED storeVars
       /\ IF out = "ok"
          THEN LET hist == IF toolCall.args.useContext THEN getConversationHistory ELSE <<>>
               IN  /\ history' = hist
                   /\ Issue(completeWithContext(buildMessages(hist, toolCall.args.prompt),
                                                "deepseek/deepseek-r1", "model"))
                   /\ pc' = "ask_await" /\ UNCHANGED result
          ELSE Throw("store") /\ UNCHANGED << history, providerVars >>
  /\ UNCHANGED << request, models, responses, currentPrompt, idx, otherLocals, handlerVars >>

\* lines 289-292: the response arrives, or the call fails
ask_await ==
  /\ pc = "ask_await"
  /\ \E o \in ProviderOutcomes(calls[Len(calls)], Len(calls)) :
       /\ Settle(Len(calls), o)
       /\ IF o.ok
          THEN /\ responses' = << ProviderResponse("deepseek/deepseek-r1", o.text) >>
               /\ pc' = "ask_save" /\ UNCHANGED result
          ELSE Throw("provider") /\ UNCHANGED responses
  /\ UNCHANGED << storeVars, request, models, history, currentPrompt, idx, otherLocals,
                  handlerVars >>

\* lines 294-311: the response is saved and returned
ask_save ==
  /\ pc = "ask_save"
  /\ \E out \in StoreOutcomes :
       /\ IF toolCall.args.useContext
          THEN addMessage("assistant", responses[1].response, responses[1].model, None, out)
          ELSE out = "ok" /\ UNCHANGED storeVars
       /\ IF out = "ok"
          THEN result' = Plain(responses[1].response) /\ pc' = "done"
          ELSE Throw("store")
  /\ UNCHANGED << request, models, localVars, providerVars, handlerVars >>

\* lines 361-373 and ContextManager.startNewConversation: the pointer moves to
\* a new identifier, then the conversation row is inserted, then the cache key
\* of the new conversation is deleted
tool_new_conversation ==
  /\ pc = "new_conversation"
  /\ \E out \in StoreOutcomes :
       /\ startNewConversation_effect(out)
       /\ IF out = "ok"
          THEN /\ result' = Plain(<< "Started new conversation: ", "Untitled", "\nID: ",
                                    ToString(uuidv4) >>)
               /\ pc' = "done"
          ELSE Throw("store")
  /\ UNCHANGED << request, models, localVars, providerVars, handlerVars >>

\* lines 375-391: the history case
tool_history ==
  /\ pc = "history"
  /\ \E out \in StoreOutcomes :
       /\ getConversationHistory_effect(out)
       /\ IF out = "ok"
          THEN LET rows == getConversationHistory
                   formatted == join([k \in 1..Len(rows) |->
                                        <<rows[k].role, ":\n">> \o rows[k].content],
                                     <<"\n\n---\n\n">>)
               IN  /\ result' = Plain(IF formatted = <<>>
                                      THEN << "No conversation history yet." >>
                                      ELSE formatted)
                   /\ pc' = "done"
          ELSE Throw("store")
  /\ UNCHANGED << request, models, localVars, providerVars, handlerVars >>

\* lines 393-409 and ContextManager.searchMessages: the messages of every
\* conversation whose content holds the query
tool_search ==
  /\ pc = "search"
  /\ \E out \in { "ok", "dbError" } :
       IF out = "ok"
       THEN LET Hit(m) == Contains(m.content, toolCall.args.query)
                rows == SelectSeq(messages, Hit)
                formatted == join([k \in 1..Len(rows) |->
                                     <<rows[Len(rows) + 1 - k].role, ":\n">>
                                       \o rows[Len(rows) + 1 - k].content \o <<"...">>],
                                  <<"\n\n---\n\n">>)
            IN  /\ result' = Plain(IF formatted = <<>>
                                   THEN << "No results found for \"" >> \o toolCall.args.query
                                          \o << "\"" >>
                                   ELSE formatted)
                /\ pc' = "done"
       ELSE Throw("store")
  /\ UNCHANGED << storeVars, request, models, localVars, providerVars, handlerVars >>

\* lines 411-426: the summary case
tool_summary ==
  /\ pc = "summary"
  /\ \E out \in StoreOutcomes :
       /\ getSummary(out)
       /\ IF out = "ok"
          THEN /\ result' = Plain(<< "# Context Summary\n\n", "**Total Conversations:** ",
                                    ToString(Cardinality(conversations)),
                                    "**Total Messages:** ", ToString(Len(messages)),
                                    "**Current Conversation ID:** ",
                                    ToString(currentConversationId) >>)
               /\ pc' = "done"
          ELSE Throw("store")
  /\ UNCHANGED << request, models, localVars, providerVars, handlerVars >>

\* an error that leaves the handler instead of being turned into a text
tool_return_rethrow ==
  /\ pc = "done"
  /\ toolCall.name # NoToolCall.name
  /\ answers' = Append(answers,
                  IF result.status = "error" THEN [type |-> "rejected", text |-> <<result.error>>]
                  ELSE IF toolCall.name = "orchestrate"
                  THEN TextResult(formatOrchestrationResult(result))
                  ELSE IF toolCall.name = "compare"
                  THEN TextResult(formatComparison(toolCall.args.prompt, result))
                  ELSE TextResult(result.text))
  /\ pc' = "idle"
  /\ result' = NoResult
  /\ request' = NoRequest
  /\ models' = <<>>
  /\ ResetLocals
  /\ calls' = <<>> /\ outcomes' = << >>
  /\ UNCHANGED << storeVars, toolCall, initialized >>

\* the return statement of the case that ran, or of the catch (lines 431-441):
\* the handler answers the tool call
tool_return ==
  /\ pc = "done"
  /\ toolCall.name # NoToolCall.name
  /\ answers' = Append(answers,
                  IF result.status = "error" THEN TextResult(ErrorText(result.error))
                  ELSE IF toolCall.name = "orchestrate"
                  THEN TextResult(formatOrchestrationResult(result))
                  ELSE IF toolCall.name = "compare"
                  THEN TextResult(formatComparison(toolCall.args.prompt, result))
                  ELSE TextResult(result.text))
  /\ pc' = "idle"
  /\ result' = NoResult
  /\ request' = NoRequest
  /\ models' = <<>>
  /\ ResetLocals
  /\ calls' = <<>> /\ outcomes' = << >>
  /\ UNCHANGED << storeVars, toolCall, initialized >>

\* ------------------------------------------------------------ the system
\* the store after ContextManager.initialize() on an empty database: the default
\* conversation has its row, or createTables failed (the error is logged and
\* swallowed) and the pointer names a conversation that was never inserted
InitialStores ==
  { [conversations |-> {1}, messages |-> <<>>],
    [conversations |-> {}, messages |-> <<>>] }

Init ==
  /\ \E s \in InitialStores : conversations = s.conversations /\ messages = s.messages
  /\ cache = << >>
  /\ currentConversationId = 1
  /\ pc = "idle"
  /\ request = NoRequest
  /\ models = <<>>
  /\ result = NoResult
  /\ InitLocals
  /\ calls = <<>> /\ outcomes = << >>
  /\ toolCall = NoToolCall /\ answers = <<>> /\ initialized = "full"

Next ==
  \/ \E req \in Requests : orchestrate(req)
  \/ orchestrate_addMessage
  \/ orchestrate_switch
  \/ orchestrate_getSummary
  \/ return
  \/ sequentialProcessing
  \/ sequential_loop
  \/ sequential_await
  \/ sequential_save
  \/ parallelProcessing
  \/ parallel_map
  \/ \E k \in 1..Len(promises) : parallel_settle(k)
  \/ parallel_all
  \/ synthesizeResponses_await
  \/ parallel_save
  \/ consensusMode
  \/ consensus_find
  \/ findConsensus_await
  \/ consensus_save
  \/ debateMode
  \/ debate_loop
  \/ debate_await
  \/ generateDebateConclusion_await
  \/ debate_save
  \/ specialistRouting
  \/ analyzePromptType_await
  \/ specialist_select
  \/ specialist_loop
  \/ specialist_await
  \/ specialist_save

Spec == Init /\ [][Next]_vars

\* orchestrate(request), called on the engine while the conversation is empty
orchestrate_fresh(req) ==
  /\ pc = "idle"
  /\ messages = <<>>
  /\ orchestrate_begin(req)
  /\ UNCHANGED handlerVars

\* the engine called again and again, each call on an empty conversation
LiveNext ==
  \/ \E req \in Requests : orchestrate_fresh(req)
  \/ orchestrate_addMessage
  \/ orchestrate_switch
  \/ orchestrate_getSummary
  \/ return
  \/ sequentialProcessing
  \/ sequential_loop
  \/ sequential_await
  \/ sequential_save
  \/ parallelProcessing
  \/ parallel_map
  \/ \E k \in 1..Len(promises) : parallel_settle(k)
  \/ parallel_all
  \/ synthesizeResponses_await
  \/ parallel_save
  \/ consensusMode
  \/ consensus_find
  \/ findConsensus_await
  \/ consensus_save
  \/ debateMode
  \/ debate_loop
  \/ debate_await
  \/ generateDebateConclusion_await
  \/ debate_save
  \/ specialistRouting
  \/ analyzePromptType_await
  \/ specialist_select
  \/ specialist_loop
  \/ specialist_await
  \/ specialist_save

\* a step of a running orchestrate call: a provider call or a store operation
\* settles and the continuation that awaited it runs
EngineStep == pc # "idle" /\ LiveNext

\* the engine where every provider call and every store operation that is
\* awaited eventually settles, and the event loop then runs the continuation
LiveSpec == Init /\ [][LiveNext]_vars /\ WF_vars(EngineStep)

\* the server process before its first tool call: nothing is initialized, the
\* database is empty or holds a conversation of an earlier process
HandlerInit ==
  /\ conversations \in { {}, {1} }
  /\ messages = <<>>
  /\ cache = << >>
  /\ currentConversationId = NoConversation
  /\ pc = "idle"
  /\ request = NoRequest
  /\ models = <<>>
  /\ result = NoResult
  /\ InitLocals
  /\ calls = <<>> /\ outcomes = << >>
  /\ toolCall = NoToolCall /\ answers = <<>> /\ initialized = "none"

\* the server handles one tool call after the other; the engine runs inside
\* the orchestrate and compare cases
HandlerNext ==
  \/ \E call \in ToolCalls : callTool(call)
  \/ ensureInitialized
  \/ tool_switch
  \/ ask_addMessage
  \/ ask_complete
  \/ ask_await
  \/ ask_save
  \/ tool_new_conversation
  \/ tool_history
  \/ tool_search
  \/ tool_summary
  \/ tool_return
  \/ orchestrate_addMessage
  \/ orchestrate_switch
  \/ orchestrate_getSummary
  \/ sequentialProcessing
  \/ sequential_loop
  \/ sequential_await
  \/ sequential_save
  \/ parallelProcessing
  \/ parallel_map
  \/ \E k \in 1..Len(promises) : parallel_settle(k)
  \/ parallel_all
  \/ synthesizeResponses_await
  \/ parallel_save
  \/ consensusMode
  \/ consensus_find
  \/ findConsensus_await
  \/ consensus_save
  \/ debateMode
  \/ debate_loop
  \/ debate_await
  \/ generateDebateConclusion_await
  \/ debate_save
  \/ specialistRouting
  \/ analyzePromptType_await
  \/ specialist_select
  \/ specialist_loop
  \/ specialist_await
  \/ specialist_save

HandlerSpec == HandlerInit /\ [][HandlerNext]_vars

\* ---------------------------------------------- the context store on its own
\* The operations of ContextManager called one after another on the store
\* that initialize() left, each to its end; result holds what the last one
\* returned or raised.

\* the limit argument of getConversationHistory (the history tool passes the
\* number the user gave, the engine passes none and gets 50)
Limits == { 1, 2, HistoryLimit }

\* what an operation of the store gave back
StoreResult(op, conversationId, limit, out, value) ==
  [op |-> op, conversationId |-> conversationId, limit |-> limit, status |-> out,
   value |-> value]

\* contextManager.addMessage({role: 'user', content}): the k-th stored message
\* has the text m<k>
store_addMessage ==
  /\ pc = "idle"
  /\ Len(messages) < MaxMessages
  /\ LET content == << "m" \o ToString(Len(messages) + 1) >>
     IN  \E out \in StoreOutcomes :
           /\ addMessage("user", content, "null", None, out)
           /\ result' = StoreResult("addMessage", currentConversationId, 0, out,
                          IF out = "ok"
                          THEN << Message(currentConversationId, "user", content, "null", None) >>
                          ELSE <<>>)
  /\ UNCHANGED << pc, request, models, localVars, providerVars, handlerVars >>

\* contextManager.getConversationHistory(conversationId, limit)
store_getConversationHistory(conversationId, limit) ==
  /\ pc = "idle"
  /\ \E out \in StoreOutcomes :
       /\ getConversationHistoryOf_effect(conversationId, limit, out)
       /\ result' = StoreResult("getConversationHistory", conversationId, limit, out,
                      IF out = "ok" THEN getConversationHistoryOf(conversationId, limit)
                      ELSE <<>>)
  /\ UNCHANGED << pc, request, models, localVars, providerVars, handlerVars >>

\* contextManager.startNewConversation()
store_startNewConversation ==
  /\ pc = "idle"
  /\ uuidv4 <= MaxConversationId
  /\ \E out \in StoreOutcomes :
       /\ startNewConversation_effect(out)
       /\ result' = StoreResult("startNewConversation", uuidv4, 0, out, <<>>)
  /\ UNCHANGED << pc, request, models, localVars, providerVars, handlerVars >>

\* redis expire(cacheKey, 3600): an hour after the last addMessage or the last
\* fill, the list of the conversation is gone
store_expire(conversationId) ==
  /\ pc = "idle"
  /\ conversationId \in DOMAIN cache
  /\ cache' = [c \in DOMAIN cache \ {conversationId} |-> cache[c]]
  /\ UNCHANGED << conversations, messages, currentConversationId, callVars, localVars,
                  providerVars, handlerVars >>

StoreNext ==
  \/ store_addMessage
  \/ \E c \in conversations \cup {currentConversationId} : \E limit \in Limits :
       store_getConversationHistory(c, limit)
  \/ store_startNewConversation
  \/ \E c \in conversations : store_expire(c)

StoreSpec == Init /\ [][StoreNext]_vars

\* ------------------------------------------------- the selection on its own
\* specialistRouting at the point where the classification has been parsed,
\* for every classification over the taxonomy (and a category and a complexity
\* outside it) and every list of available models.

\* models of the lookup table, and one that is in none of its lists
SpecialistPool ==
  { "anthropic/claude-opus-4", "deepseek/deepseek-r1", "openai/gpt-4o",
    "anthropic/claude-3.5-sonnet", "deepseek/deepseek-v3" }

AvailableLists == UNION { [1..n -> SpecialistPool] : n \in 0..MaxAvailable }

SelectAnalyses ==
  { JSValue("object", primary, secondary, complexity) :
      primary \in DOMAIN specialistMap \cup {"poetry"},
      secondary \in DOMAIN specialistMap \cup {"general"},
      complexity \in {"low", "medium", "high", "undefined"} }
  \cup {JSNull}

SelectInit ==
  /\ conversations = {1} /\ messages = <<>> /\ cache = << >>
  /\ currentConversationId = 1
  /\ pc = "specialist_select"
  /\ models \in AvailableLists
  /\ request = [prompt |-> <<"X">>, strategy |-> "specialist", models |-> Some(models),
                useContext |-> Some(FALSE), maxRounds |-> None]
  /\ result = NoResult
  /\ history = <<>> /\ responses = <<>> /\ currentPrompt = <<>> /\ idx = 0
  /\ promises = <<>> /\ settleOrder = <<>> /\ synthesis = <<>> /\ consensus = <<>>
  /\ maxRounds = 0 /\ round = 0 /\ roundResponses = <<>> /\ rounds = <<>>
  /\ conclusion = <<>> /\ specialists = <<>>
  /\ analysis \in SelectAnalyses
  /\ calls = << analyzePromptType(<<"X">>) >>
  /\ outcomes = (1 :> Success(<<>>))
  /\ toolCall = NoToolCall /\ answers = <<>> /\ initialized = "full"

SelectNext == specialist_select

SelectSpec == SelectInit /\ [][SelectNext]_vars

\* -------------------------------- the engine beside the new_conversation tool
\* The handler is async: while an orchestrate call waits for a provider call or
\* a store operation, the handler of another tool call runs. Here that other
\* call is new_conversation (part_001 lines 361-373), which runs
\* contextManager.startNewConversation() on the store the engine writes to. One
\* such call is made, while the pointer still has the value it was constructed
\* with.
concurrent_new_conversation ==
  /\ pc \notin {"idle", "done"}
  /\ currentConversationId = 1
  /\ uuidv4 <= MaxConversationId
  /\ \E out \in StoreOutcomes : startNewConversation_effect(out)
  /\ UNCHANGED << callVars, localVars, providerVars, handlerVars >>

ConcurrentNext ==
  \/ LiveNext
  \/ concurrent_new_conversation

ConcurrentSpec == Init /\ [][ConcurrentNext]_vars

\* ------------------------------------------ the store under concurrent calls
\* ContextManager calls on the current conversation made without waiting for
\* each other, PostgreSQL and Redis healthy. Every await of addMessage and of
\* getConversationHistory is a point where another call runs; a step is one
\* statement on PostgreSQL or one command on Redis. promises holds the calls in
\* flight, result what the last finished call gave back.

\* the calls in flight without the k-th
withoutCall(k) == SubSeq(promises, 1, k - 1) \o SubSeq(promises, k + 1, Len(promises))

\* addMessage lines 122-146: the call is made and its INSERT runs
addMessage_query ==
  /\ pc = "idle"
  /\ Len(promises) < MaxInFlight
  /\ Len(messages) < MaxMessages
  /\ currentConversationId \in conversations
  /\ LET saved == Message(currentConversationId, "user",
                          << "m" \o ToString(Len(messages) + 1) >>, "null", None)
     IN  /\ messages' = Append(messages, saved)
         /\ promises' = Append(promises, [op |-> "addMessage", at |-> "rPush",
                                          conversationId |-> currentConversationId,
                                          rows |-> << saved >>])
  /\ UNCHANGED << conversations, cache, currentConversationId, callVars >>
  /\ UNCHANGED << history, responses, currentPrompt, idx, settleOrder, synthesis,
                  consensus, maxRounds, round, roundResponses, rounds, conclusion,
                  analysis, specialists, providerVars, handlerVars >>

\* addMessage lines 148-159: the saved row is pushed to the Redis list and the
\* call returns it
addMessage_rPush(k) ==
  /\ promises[k].op = "addMessage"
  /\ LET call == promises[k]
     IN  /\ cache' = (call.conversationId :>
                        (lRange(call.conversationId) \o call.rows)) @@ cache
         /\ result' = StoreResult("addMessage", call.conversationId, 0, "ok", call.rows)
  /\ promises' = withoutCall(k)
  /\ UNCHANGED << conversations, messages, currentConversationId, pc, request, models >>
  /\ UNCHANGED << history, responses, currentPrompt, idx, settleOrder, synthesis,
                  consensus, maxRounds, round, roundResponses, rounds, conclusion,
                  analysis, specialists, providerVars, handlerVars >>

\* getConversationHistory lines 162-170: the call is made and reads the Redis
\* list; a non-empty list is the answer, an empty one sends the call to PostgreSQL
getConversationHistory_lRange ==
  /\ pc = "idle"
  /\ Len(promises) < MaxInFlight
  /\ LET cached == lRange(currentConversationId)
     IN  IF Len(cached) > 0
         THEN /\ result' = StoreResult("getConversationHistory", currentConversationId,
                                       HistoryLimit, "ok", cached)
              /\ UNCHANGED promises
         ELSE /\ promises' = Append(promises, [op |-> "getConversationHistory",
                                               at |-> "query",
                                               conversationId |-> currentConversationId,
                                               rows |-> <<>>])
              /\ UNCHANGED result
  /\ UNCHANGED << storeVars, pc, request, models >>
  /\ UNCHANGED << history, responses, currentPrompt, idx, settleOrder, synthesis,
                  consensus, maxRounds, round, roundResponses, rounds, conclusion,
                  analysis, specialists, providerVars, handlerVars >>

\* getConversationHistory lines 172-181: the SELECT runs; without rows the call
\* returns the empty list
getConversationHistory_query(k) ==
  /\ promises[k].op = "getConversationHistory" /\ promises[k].at = "query"
  /\ LET call == promises[k]
         rows == slice0(rowsOf(messages, call.conversationId), HistoryLimit)
     IN  IF Len(rows) > 0
         THEN /\ promises' = [promises EXCEPT ![k].at = "exec", ![k].rows = rows]
              /\ UNCHANGED result
         ELSE /\ promises' = withoutCall(k)
              /\ result' = StoreResult("getConversationHistory", call.conversationId,
                                       HistoryLimit, "ok", rows)
  /\ UNCHANGED << storeVars, pc, request, models >>
  /\ UNCHANGED << history, responses, currentPrompt, idx, settleOrder, synthesis,
                  consensus, maxRounds, round, roundResponses, rounds, conclusion,
                  analysis, specialists, providerVars, handlerVars >>

\* getConversationHistory lines 183-192: the pipeline pushes every row of the
\* query to the Redis list and the call returns the rows
getConversationHistory_exec(k) ==
  /\ promises[k].op = "getConversationHistory" /\ promises[k].at = "exec"
  /\ LET call == promises[k]
     IN  /\ cache' = (call.conversationId :>
                        (lRange(call.conversationId) \o call.rows)) @@ cache
         /\ result' = StoreResult("getConversationHistory", call.conversationId,
                                  HistoryLimit, "ok", call.rows)
  /\ promises' = withoutCall(k)
  /\ UNCHANGED << conversations, messages, currentConversationId, pc, request, models >>
  /\ UNCHANGED << history, responses, currentPrompt, idx, settleOrder, synthesis,
                  consensus, maxRounds, round, roundResponses, rounds, conclusion,
                  analysis, specialists, providerVars, handlerVars >>

ConcurrentStoreNext ==
  \/ addMessage_query
  \/ \E k \in 1..Len(promises) : addMessage_rPush(k)
  \/ getConversationHistory_lRange
  \/ \E k \in 1..Len(promises) : getConversationHistory_query(k)
  \/ \E k \in 1..Len(promises) : getConversationHistory_exec(k)

ConcurrentStoreSpec == Init /\ [][ConcurrentStoreNext]_vars

\* ------------------------------------------------------------- properties
\* an orchestrate call is running or has just ended
Called == pc # "idle"

\* the call ended by returning a result / by throwing
Returned == pc = "done" /\ result.status = "ok"
Threw == pc = "done" /\ result.status = "error"

\* the number of models the request list (or the default set) holds
N == Len(models)

\* the per-model calls of a parallel batch that failed
FailedModels == { k \in 1..Len(promises) : k \in DOMAIN outcomes /\ ~outcomes[k].ok }

RECURSIVE SuccessfulResponses(_)
\* the models whose own call succeeded, in list order, each with the text the
\* provider returned for the call sent to it
SuccessfulResponses(k) ==
  IF k = 0 THEN <<>>
  ELSE IF outcomes[k].ok
       THEN Append(SuccessfulResponses(k - 1),
                   [model |-> calls[k].model, response |-> outcomes[k].text])
       ELSE SuccessfulResponses(k - 1)

\* C1: orchestrate called with a strategy outside the five recognised values
\* makes no provider call at any point of the call and ends in an error.
C1_UnknownStrategyNoProviderCall ==
  (Called /\ request.strategy \notin Strategies) =>
     /\ calls = <<>>
     /\ pc = "done" => result.status = "error"

C1_Witness ==
  /\ Threw
  /\ request.strategy \in UnknownStrategies
  /\ result.error = "Unknown orchestration strategy"
  /\ calls = <<>>

\* C2: Parallel strategy with N models of which K per-model calls fail: when
\* orchestrate returns, result.responses has exactly N-K entries; and no failure
\* of a per-model call escapes orchestrate, for the only errors of a Parallel
\* call are those of the synthesis call and of the context store.
C2_ParallelPartialFailure ==
  (request.strategy = "parallel" /\ pc = "done") =>
     IF result.status = "ok"
     THEN /\ DOMAIN outcomes = 1..(N + 1)
          /\ Len(result.responses[1]) = N - Cardinality(FailedModels)
     ELSE \/ result.error = "store"
          \/ result.error = "provider" /\ result.at = "synthesizeResponses_await"

C2_Witness ==
  /\ Returned
  /\ request.strategy = "parallel"
  /\ N = 2
  /\ Cardinality(FailedModels) = 1
  /\ Len(result.responses[1]) = 1

\* C3: Parallel strategy: whatever the order in which the concurrent calls
\* complete, result.responses lists the successful models in the order of the
\* model list, each with the text of the call sent to that model, and
\* result.synthesis is the text the synthesis call returned.
C3_ParallelInputOrder ==
  (request.strategy = "parallel" /\ Returned) =>
     /\ \A k \in 1..N : calls[k].model = models[k] /\ calls[k].step = "model"
     /\ result.models = models
     /\ result.responses = Some(SuccessfulResponses(N))
     /\ calls[N + 1].step = "synthesis"
     /\ result.synthesis = Some(outcomes[N + 1].text)

\* the second model's call completed first, and both succeeded
C3_Witness ==
  /\ Returned
  /\ request.strategy = "parallel"
  /\ models = << "anthropic/claude-opus-4", "deepseek/deepseek-v3" >>
  /\ settleOrder = << 2, 1 >>
  /\ FailedModels = {}
  /\ result.synthesis # Some(<<>>)

\* the last message of a message list
LastMessage(call) == call.messages[Len(call.messages)]

\* C4: Sequential strategy with useContext true: for every i >= 2 the message
\* list of the i-th provider call contains the text the provider returned for
\* the (i-1)-th call, verbatim, together with the original prompt: both are
\* embedded in the user message that ends the list.
C4_SequentialEmbedsPrevious ==
  (request.strategy = "sequential" /\ request.useContext = Some(TRUE)) =>
     \A i \in 2..Len(calls) :
        /\ calls[i].method = "completeWithContext"
        /\ (i - 1) \in DOMAIN outcomes
        /\ LastMessage(calls[i]).role = "user"
        /\ Contains(LastMessage(calls[i]).content, outcomes[i - 1].text)
        /\ Contains(LastMessage(calls[i]).content, request.prompt)

C4_Witness ==
  /\ request.strategy = "sequential"
  /\ request.useContext = Some(TRUE)
  /\ Len(calls) = 2
  /\ Len(LastMessage(calls[2]).content) > Len(request.prompt) + Len(outcomes[1].text)

\* the rounds a debate is asked for: options.maxRounds, 3 when it is not given
RequestedRounds == IF request.maxRounds = None THEN 3 ELSE request.maxRounds[1]

\* C5: Debate strategy, all provider calls succeeding: for every positive
\* options.maxRounds (3 when not given) result.rounds has exactly maxRounds
\* entries numbered 1..maxRounds, each holding one response per model in
\* model-list order, and result.conclusion is the text the conclusion call returned.
C5_DebateRounds ==
  (request.strategy = "debate" /\ Returned /\ RequestedRounds >= 1) =>
     LET R == result.rounds[1] IN
     /\ Len(R) = RequestedRounds
     /\ \A r \in 1..Len(R) :
          /\ R[r].round = r
          /\ Len(R[r].responses) = N
          /\ \A j \in 1..N :
               R[r].responses[j] =
                 [model |-> models[j], response |-> outcomes[(r - 1) * N + j].text]
     /\ calls[Len(calls)].step = "conclusion"
     /\ result.conclusion = Some(outcomes[Len(calls)].text)

C5_Witness ==
  /\ request.strategy = "debate"
  /\ Returned
  /\ request.maxRounds = Some(2)
  /\ N = 2
  /\ Len(result.rounds[1]) = 2

\* the round (1-based) of the i-th per-model call of a debate
RoundOfCall(i) == ((i - 1) \div N) + 1

\* C6: Debate strategy: in the first round every model is sent the bare
\* original prompt; in every later round r all models are sent one identical
\* prompt, which embeds the responses of every model in every round before r
\* and none of the responses of round r itself.
C6_DebatePrompts ==
  (request.strategy = "debate" /\ Called) =>
     \A i \in 1..Len(calls) :
        calls[i].step = "model" =>
          LET r == RoundOfCall(i)
              content == calls[i].messages[1].content
          IN  /\ Len(calls[i].messages) = 1
              /\ r = 1 => content = request.prompt
              /\ r > 1 =>
                   /\ Contains(content, request.prompt)
                   /\ \A k \in 1..((r - 1) * N) : Contains(content, outcomes[k].text)
                   /\ \A k \in ((r - 1) * N + 1)..Len(calls) :
                        (k \in DOMAIN outcomes /\ outcomes[k].ok /\ calls[k].step = "model")
                          => ~Contains(content, outcomes[k].text)
              /\ \A i2 \in 1..Len(calls) :
                   (calls[i2].step = "model" /\ RoundOfCall(i2) = r)
                     => calls[i2].messages = calls[i].messages

\* three rounds of two models have been run
C6_Witness ==
  /\ request.strategy = "debate"
  /\ Returned
  /\ N = 2
  /\ Len(result.rounds[1]) = 3
  /\ Len(calls) = 7

\* the classification call of a Specialist run has returned this text
ClassificationText == outcomes[1].text
Classified == request.strategy = "specialist" /\ 1 \in DOMAIN outcomes /\ outcomes[1].ok

Taxonomy == { "coding", "debugging", "architecture", "planning", "analysis", "creative" }
Complexities == { "low", "medium", "high" }

\* the text is a JSON object {primary, secondary, complexity} over the taxonomy
WellShaped(text) ==
  \E e \in JSONTable :
     /\ e.text = text
     /\ e.value.t = "object"
     /\ e.value.primary \in Taxonomy
     /\ e.value.secondary \in Taxonomy
     /\ e.value.complexity \in Complexities

\* C7: Specialist strategy: for every classification response that is not a
\* JSON object {primary, secondary, complexity} over the taxonomy, the engine
\* routes with the classification primary=coding, secondary=general,
\* complexity=medium, and no error caused by the response reaches the caller.
C7_MalformedClassificationDefaults ==
  (Classified /\ ~WellShaped(ClassificationText)) =>
     /\ analysis = JSValue("object", "coding", "general", "medium")
     /\ ~(Threw /\ result.error = "TypeError")

\* the classification response is not JSON at all
InvalidJSON ==
  Classified /\ \A e \in JSONTable : e.text # ClassificationText

\* selectSpecialists has run
Routed == pc \notin { "specialistRouting", "analyzePromptType_await", "specialist_select" }

\* C8 as stated: if the classification call returns invalid JSON, the engine
\* never throws and selects only the default model, through the fallback path.
C8_Original ==
  (InvalidJSON /\ Routed) =>
     /\ ~(Threw /\ result.error = "TypeError")
     /\ \A k \in 1..Len(specialists) :
          specialists[k] = Specialist(models[1], <<"Default model">>)

\* the ranked list of the coding category
CodingRanked ==
  << "anthropic/claude-opus-4", "deepseek/deepseek-r1", "mistralai/codestral-2501" >>

\* C8 (amended): if the classification call returns invalid JSON, no error
\* arises from parsing or routing and the engine routes with the default
\* classification: it selects the models of the coding list that are in the
\* available list, in ranked order and at most two; only when none of them is
\* available does it take the fallback path and select just the first
\* available model (reason 'Default model'), or nothing when the list is empty.
C8_InvalidJsonRoutesAsCoding ==
  InvalidJSON =>
     /\ analysis = JSValue("object", "coding", "general", "medium")
     /\ Threw => result.at \in { "specialist_await", "specialist_save", "orchestrate_getSummary" }
     /\ Routed =>
          LET Available(m) == includes(models, m)
              top == slice0(SelectSeq(CodingRanked, Available), 2)
          IN  IF top # <<>>
              THEN specialists =
                     [k \in 1..Len(top) |->
                        Specialist(top[k], <<"Selected for ", "coding", " tasks">>)]
              ELSE IF models # <<>>
              THEN specialists = << Specialist(models[1], <<"Default model">>) >>
              ELSE specialists = <<>>

\* invalid JSON, and a coding specialist of the caller's list was selected
C8_Witness ==
  /\ InvalidJSON
  /\ Returned
  /\ models = << "deepseek/deepseek-v3", "anthropic/claude-opus-4" >>
  /\ result.models = << "anthropic/claude-opus-4" >>

\* C9: for every strategy and every outcome of the provider calls, an
\* orchestrate call with useContext=false writes nothing to the context store:
\* no step of such a call changes the conversations, the messages, the cache or
\* the current-conversation pointer, however many such calls are made.
C9_NoContextNoWrites ==
  [][ (pc' # "idle" /\ request'.useContext = Some(FALSE)) => UNCHANGED storeVars ]_vars

C9_Witness ==
  /\ Returned
  /\ request.useContext = Some(FALSE)
  /\ request.strategy = "consensus"
  /\ Len(calls) = N + 2
  /\ messages = <<>>

\* C10: the model list that drives the provider calls is never empty: when
\* request.models is absent or an empty list, the first 3 entries of the
\* default ranked list are used instead.
C10_ModelsNeverEmpty ==
  Called =>
     /\ models # <<>>
     /\ (request.models = None \/ request.models = Some(<<>>))
          => models = slice0(defaultModels, 3)

\* C11: for each of the five strategies, when the model list of the call (the
\* request's, or the default set in its place) is non-empty and orchestrate
\* returns a result, result.models is non-empty and each of its elements is a
\* member of that list.
C11_ResultModelsFromList ==
  (Returned /\ request.strategy \in Strategies /\ models # <<>>) =>
     /\ result.models # <<>>
     /\ \A k \in 1..Len(result.models) : includes(models, result.models[k])

\* a Specialist run whose classification names no model of the caller's list
C11_Witness ==
  /\ Returned
  /\ request.strategy = "specialist"
  /\ models = << "deepseek/deepseek-v3", "deepseek/deepseek-v3" >>
  /\ analysis.primary = "planning"
  /\ result.models = << "deepseek/deepseek-v3" >>

\* the step appends to the store the user message holding the prompt
UserMessageAppended ==
  messages' = Append(messages, Message(currentConversationId', "user", request.prompt,
                                       "null", None))

\* the step appends one message of the given role, and only that
Appended(role) ==
  /\ Len(messages') = Len(messages) + 1
  /\ SubSeq(messages', 1, Len(messages)) = messages
  /\ messages'[Len(messages')].role = role

\* C12: when useContext is not explicitly false, orchestrate appends exactly one
\* user-role message, holding the prompt, and that append is complete before the
\* first provider call of the strategy is issued.  Step by step: the append
\* step is entered once per call, from the start of the call; it is left for
\* the switch only with the user message appended; no provider call exists
\* before the switch; and no other step of the call appends a user message.
C12_UserMessageBeforeCalls ==
  [][ /\ pc' = "orchestrate_addMessage" => (pc = "idle" /\ calls' = <<>>)
      /\ pc' = "orchestrate_switch" => (pc = "orchestrate_addMessage" /\ calls' = <<>>)
      /\ (pc = "orchestrate_addMessage" /\ pc' = "orchestrate_switch" /\ UsesContext(request))
            => UserMessageAppended
      /\ (pc = "orchestrate_addMessage" /\ messages' # messages) => UserMessageAppended
      /\ (pc # "orchestrate_addMessage" /\ messages' # messages) => Appended("assistant")
      /\ calls' # <<>> =>
            pc' \notin { "idle", "orchestrate_addMessage", "orchestrate_switch" }
    ]_vars

\* the first provider call has been issued, and the store holds the user message
C12_Witness ==
  /\ request.strategy = "sequential"
  /\ request.useContext = None
  /\ pc = "sequential_await"
  /\ Len(calls) = 1
  /\ Len(messages) = 1
  /\ messages[1].role = "user" /\ messages[1].content = request.prompt

\* C13: Parallel strategy: if the synthesis provider call fails, orchestrate
\* still returns a result that holds the collected responses and has no
\* synthesis, and the failure is not surfaced as an error.
C13_SynthesisFailureNotFatal ==
  (request.strategy = "parallel" /\ pc = "done"
     /\ (N + 1) \in DOMAIN outcomes /\ ~outcomes[N + 1].ok) =>
       /\ result.status = "ok"
       /\ result.responses = Some(responses)
       /\ result.synthesis \in { None, Some(<<>>) }

\* the steps that await one of the extra calls
ExtraSteps ==
  { "analyzePromptType_await", "generateDebateConclusion_await",
    "synthesizeResponses_await", "findConsensus_await" }

\* the step settles the awaited extra call with a failure
ExtraCallFails ==
  /\ pc \in ExtraSteps
  /\ Len(calls) \in DOMAIN outcomes'
  /\ ~outcomes'[Len(calls)].ok

\* C14: a provider failure in any of the extra calls (classification,
\* conclusion, synthesis, consensus) is fatal: the step in which the call fails
\* ends orchestrate with the provider error and writes nothing, and between the
\* error and the end of the call no provider call is issued and the store is
\* not changed.
C14_ExtraCallFailureFatal ==
  [][ /\ ExtraCallFails =>
            /\ pc' = "done" /\ result'.status = "error" /\ result'.error = "provider"
            /\ calls' = calls
            /\ UNCHANGED storeVars
      /\ (pc = "done" /\ result.status = "error") =>
            /\ pc' = "idle"
            /\ calls' = <<>>
            /\ UNCHANGED storeVars
    ]_vars

\* the consensus call failed after the user message and the synthesis were written
C14_Witness ==
  /\ Threw
  /\ result.at = "findConsensus_await"
  /\ result.error = "provider"
  /\ UsesContext(request)
  /\ Len(messages) = 2
  /\ Len(calls) = N + 2

\* the last n messages of the store
LastMessages(n) == SubSeq(messages, Len(messages) - n + 1, Len(messages))

\* the messages a Sequential call with context has written once its first n
\* models have answered and been saved
SequentialWrites(n) ==
  << Message(currentConversationId, "user", request.prompt, "null", None) >>
    \o [j \in 1..n |->
          Message(currentConversationId, "assistant", outcomes[j].text, models[j], None)]

\* C15: Sequential strategy: if the provider call for model i fails,
\* orchestrate fails with that error, no provider call is made for any model
\* after i, and no assistant message for model i or a later model is written:
\* the store ends with the user message and the answers of the models before
\* i, and is not changed between the error and the end of the call.
C15_SequentialFailureAborts ==
  /\ [](\A i \in DOMAIN outcomes :
          (request.strategy = "sequential" /\ ~outcomes[i].ok) =>
             /\ Threw /\ result.error = "provider"
             /\ Len(calls) = i
             /\ UsesContext(request) =>
                   /\ Len(messages) >= i
                   /\ LastMessages(i) = SequentialWrites(i - 1))
  /\ [][ (request.strategy = "sequential" /\ Threw) =>
            /\ pc' = "idle"
            /\ calls' = <<>>
            /\ UNCHANGED storeVars ]_vars

\* the second model of two failed, after the first was answered and saved
C15_Witness ==
  /\ request.strategy = "sequential"
  /\ UsesContext(request)
  /\ Threw
  /\ DOMAIN outcomes = {1, 2}
  /\ outcomes[1].ok /\ ~outcomes[2].ok
  /\ Len(messages) = 2

\* C16: Debate strategy: if a provider call inside a round fails, orchestrate
\* fails with that error; no further model of that round or of a later round
\* is called and no conclusion call is made (the failed call is the last one);
\* no rounds are returned; and no debate-conclusion message is written: with
\* context the last message of the store is still the user message, and the
\* store is not changed between the error and the end of the call.
C16_DebateFailureAborts ==
  /\ [](\A i \in DOMAIN outcomes :
          (request.strategy = "debate" /\ calls[i].step = "model" /\ ~outcomes[i].ok) =>
             /\ Threw /\ result.error = "provider"
             /\ Len(calls) = i
             /\ "rounds" \notin DOMAIN result
             /\ UsesContext(request) =>
                   /\ Len(messages) >= 1
                   /\ LastMessages(1) = SequentialWrites(0))
  /\ [][ (request.strategy = "debate" /\ Threw) =>
            /\ pc' = "idle"
            /\ calls' = <<>>
            /\ UNCHANGED storeVars ]_vars

\* the second model failed in the second round, after a complete first round
C16_Witness ==
  /\ request.strategy = "debate"
  /\ UsesContext(request)
  /\ Threw
  /\ N = 2
  /\ Len(rounds) = 1
  /\ DOMAIN outcomes = 1..4
  /\ ~outcomes[4].ok

\* sequence a is the beginning of sequence b
IsPrefix(a, b) == Len(a) <= Len(b) /\ SubSeq(b, 1, Len(a)) = a

\* C17: no rollback: no step of an orchestrate call, the step in which it
\* fails included, removes, changes or reorders a message the store already
\* holds or removes a conversation, and once the call has failed the store is
\* left exactly as it is; so every message appended by the earlier, successful
\* steps is still there afterwards, in the order written.
C17_NoRollback ==
  [][ /\ IsPrefix(messages, messages')
      /\ conversations \subseteq conversations'
      /\ \A c \in DOMAIN cache : c \in DOMAIN cache' /\ IsPrefix(cache[c], cache'[c])
      /\ Threw => UNCHANGED storeVars
    ]_vars

\* a Consensus call failed in the final summary read, after its three writes
C17_Witness ==
  /\ Threw
  /\ request.strategy = "consensus"
  /\ result.at = "orchestrate_getSummary"
  /\ Len(messages) = 3
  /\ messages[1].role = "user"
  /\ messages[2].model = "synthesis"
  /\ messages[3].model = "consensus"

\* the steps in which the engine appends a message, when the call uses context
AppendSteps ==
  { "orchestrate_addMessage", "sequential_save", "parallel_save", "consensus_save",
    "debate_save", "specialist_save" }

\* the step has the whole effect of a successful addMessage: one row more in
\* the durable store, and the same row at the end of the conversation's cache list
FullyAppended ==
  /\ Len(messages') = Len(messages) + 1
  /\ IsPrefix(messages, messages')
  /\ currentConversationId' \in DOMAIN cache'
  /\ LET list == cache'[currentConversationId']
     IN  /\ Len(list) = Len(lRange(currentConversationId')) + 1
         /\ list[Len(list)] = messages'[Len(messages')]

\* the step ends orchestrate with the error of the store
FailsWithStoreError ==
  pc' = "done" /\ result'.status = "error" /\ result'.error = "store"

\* C18: a Context Store failure during orchestrate is not caught by the engine
\* and makes orchestrate fail: a step that calls addMessage,
\* getConversationHistory or getSummary either has the whole effect of the
\* successful operation or ends the call with the store's error, in every
\* strategy, Parallel included, and in the final getSummary as well; the
\* engine never goes on after an operation that failed.
C18_StoreFailureFatal ==
  [][ /\ (pc \in AppendSteps /\ UsesContext(request)
            /\ (pc = "parallel_save" => synthesis # <<>>))
           => (FailsWithStoreError \/ (FullyAppended /\ pc' # "done"))
      /\ (pc \in { "sequentialProcessing", "parallelProcessing" } /\ UsesContext(request))
           => (FailsWithStoreError \/ history' = getConversationHistory)
      /\ pc = "orchestrate_getSummary"
           => \/ FailsWithStoreError
              \/ /\ pc' = "done" /\ result'.status = "ok"
                 /\ result'.conversationId = Some(currentConversationId)
    ]_vars

\* Parallel: every provider call succeeded and the final getSummary failed
C18_Witness ==
  /\ Threw
  /\ request.strategy = "parallel"
  /\ result.at = "orchestrate_getSummary"
  /\ result.error = "store"
  /\ N = 2
  /\ DOMAIN outcomes = 1..3
  /\ \A k \in 1..3 : outcomes[k].ok

\* a Consensus call with context has returned and none of its calls failed
ConsensusAllSucceeded ==
  /\ request.strategy = "consensus"
  /\ UsesContext(request)
  /\ Returned
  /\ DOMAIN outcomes = 1..(N + 2)
  /\ \A k \in 1..(N + 2) : outcomes[k].ok

\* the message a Parallel or Consensus call writes for a derived text
DerivedMessage(text, tag) ==
  Message(currentConversationId, "assistant", text, tag,
          << <<"models">> \o joinModels(models) >>)

C19_HandlerAlwaysAnswers ==
  /\ [](/\ \A k \in 1..Len(answers) : answers[k].type = "text"
        /\ pc # "idle" => answers = <<>>
        /\ (pc = "idle" /\ toolCall.name # NoToolCall.name) => Len(answers) = 1)
  /\ [][ (pc = "done" /\ result.status = "error") =>
            /\ pc' = "idle"
            /\ answers' = << TextResult(<< "Error: ", result.error >>) >> ]_vars

\* an orchestrate tool call whose provider call failed was answered with the error text
C19_Witness ==
  /\ pc = "idle"
  /\ toolCall.name = "orchestrate"
  /\ toolCall.args.valid
  /\ answers = << TextResult(<< "Error: ", "provider" >>) >>

\* C21: addMessage always persists the message into an existing conversation:
\* unless PostgreSQL or Redis itself fails, the call returns the stored row, the
\* conversation of that row has its row in conversations (created by addMessage
\* when it was missing) and the row is the newest message of the store.
C21_AddMessageAlwaysPersists ==
  (/\ "op" \in DOMAIN result
   /\ result.op = "addMessage"
   /\ result.status \notin {"dbError", "redisError"})
  => /\ result.status = "ok"
     /\ result.value[1].conversationId \in conversations
     /\ Len(messages) > 0
     /\ messages[Len(messages)] = result.value[1]

\* the rows of a list, as a set
Range(list) == { list[k] : k \in 1..Len(list) }

\* list holds some of the rows of the whole list, each once, in the order of
\* the whole list
InOrderOf(list, whole) ==
  LET Kept(m) == m \in Range(list)
  IN  list = SelectSeq(whole, Kept)

\* C22: getConversationHistory(conversationId, limit) returns at most limit
\* messages, all of that conversation and ordered oldest first, whether the
\* answer comes from the Redis list or from PostgreSQL.
C22_HistoryAtMostLimit ==
  (/\ "op" \in DOMAIN result
   /\ result.op = "getConversationHistory"
   /\ result.status = "ok")
  => /\ Len(result.value) <= result.limit
     /\ InOrderOf(result.value, rowsOf(messages, result.conversationId))

\* C23: in Sequential and Debate at most one provider call is in flight, and
\* a call is issued only when every earlier call has come back with its
\* response; in Sequential with context the call to the next model is issued
\* only when the assistant message of the model before it is the newest message
\* of the store.
C23_OneCallAtATime ==
  /\ [](request.strategy \in {"sequential", "debate"}
        => /\ Cardinality(inflight) <= 1
           /\ \A k \in 1..(Len(calls) - 1) : k \in DOMAIN outcomes /\ outcomes[k].ok)
  /\ [][(/\ request.strategy = "sequential"
         /\ UsesContext(request)
         /\ Len(calls) >= 1
         /\ Len(calls') = Len(calls) + 1)
        => /\ Len(messages) >= 1
           /\ LastMessages(1) = << Message(currentConversationId, "assistant",
                                           outcomes[Len(calls)].text,
                                           calls[Len(calls)].model, None) >>]_vars

\* the second model of a Sequential run with context is being called and the
\* answer of the first is the newest message
C23_Witness ==
  /\ request.strategy = "sequential"
  /\ UsesContext(request)
  /\ pc = "sequential_await"
  /\ Len(calls) = 2
  /\ inflight = {2}
  /\ messages[Len(messages)].content = outcomes[1].text
  /\ messages[Len(messages)].model = models[1]

\* C24: in Parallel and in the Parallel phase of Consensus the calls to all the
\* models are issued together, none waiting for another, and no further call
\* (the synthesis call first) is issued while a per-model call is unsettled,
\* whether the calls settled so far failed or not.
C24_ParallelJoin ==
  /\ [](request.strategy \in {"parallel", "consensus"} /\ Len(calls) > N
        => \A k \in 1..N : k \in DOMAIN outcomes)
  /\ [][(/\ request.strategy \in {"parallel", "consensus"}
         /\ calls = <<>>
         /\ calls' # <<>>)
        => /\ Len(calls') >= N
           /\ N >= 1 => Len(calls') = N
           /\ \A k \in 1..N : calls'[k].model = models[k] /\ calls'[k].step = "model"
           /\ outcomes' = << >>]_vars

\* the call that settled first failed while the other was in flight, and the
\* synthesis call was issued once both had settled
C24_Witness ==
  /\ request.strategy = "parallel"
  /\ N = 2
  /\ pc = "synthesizeResponses_await"
  /\ ~outcomes[settleOrder[1]].ok
  /\ outcomes[settleOrder[2]].ok
  /\ inflight = {3}

\* C25: in Sequential with useContext true the messages sent to a model hold
\* the history as it stands when that model is called, so the call to every
\* model after the first carries the assistant message of the model before it.
C25_LaterModelsSeeEarlierMessages ==
  (request.strategy = "sequential" /\ request.useContext = Some(TRUE))
  => \A i \in 2..Len(calls) :
       \E k \in 1..Len(calls[i].messages) :
         calls[i].messages[k] = [role |-> "assistant", content |-> outcomes[i - 1].text]

\* the number of rounds a debate runs: options.maxRounds, 3 when absent or 0
DebateRoundCount == IF RequestedRounds = 0 THEN 3 ELSE RequestedRounds

\* the message a debate leaves in the store: the conclusion, tagged
\* 'debate-conclusion', with the models and the round count as metadata
ConclusionMessage ==
  Message(currentConversationId, "assistant", outcomes[Len(calls)].text, "debate-conclusion",
          << <<"models">> \o join([k \in 1..N |-> <<models[k]>>], <<", ">>),
             <<"rounds", ToString(DebateRoundCount)>> >>)

\* C26: Debate never reads the conversation history: no call carries anything
\* but one user message, and no step fills the cache without writing a message.
\* With useContext not false the only messages a Debate run writes are the user
\* prompt at the start and, once every round and the conclusion call have
\* completed, one message tagged 'debate-conclusion' whose metadata names the
\* models and the round count.
C26_DebateWrites ==
  /\ [](request.strategy = "debate"
        => /\ history = <<>>
           /\ \A k \in 1..Len(calls) :
                Len(calls[k].messages) = 1 /\ calls[k].messages[1].role = "user"
           /\ (Returned /\ UsesContext(request))
                => /\ Len(messages) >= 2
                   /\ LastMessages(2)[1].role = "user"
                   /\ LastMessages(2)[2] = ConclusionMessage)
  /\ [][request.strategy = "debate"
        => /\ cache' # cache => messages' # messages
           /\ (messages' # messages /\ pc = "orchestrate_addMessage") => UserMessageAppended
           /\ (messages' # messages /\ pc # "orchestrate_addMessage")
                => /\ UsesContext(request)
                   /\ Len(rounds) = DebateRoundCount
                   /\ Len(calls) = N * DebateRoundCount + 1
                   /\ \A k \in 1..Len(calls) : k \in DOMAIN outcomes /\ outcomes[k].ok
                   /\ messages' = Append(messages, ConclusionMessage)]_vars

\* a two-round debate of two models has returned and left its conclusion
C26_Witness ==
  /\ request.strategy = "debate"
  /\ Returned
  /\ UsesContext(request)
  /\ N = 2
  /\ Len(rounds) = 2
  /\ messages[Len(messages)].model = "debate-conclusion"
  /\ messages[Len(messages)].content = result.conclusion[1]

\* the selection has run and returned its specialists
Selected == pc = "specialist_loop" /\ idx = 1 /\ Len(calls) = 1

\* the specialists chosen with the given reason, as models
ChosenFor(reason) ==
  LET Has(sp) == sp.reason = reason
      chosen == SelectSeq(specialists, Has)
  IN  [k \in 1..Len(chosen) |-> chosen[k].model]

\* C27: Specialist routing selects at most N models, N = 1, 2, 3 for complexity
\* low, medium, high (and 1 for a complexity that is none of the three); every model selected from the lookup table is in the
\* available list; the models chosen for the primary category come first and
\* are the first available ones of its ranked list, the models chosen for the
\* secondary category follow in the order of its ranked list; and no model is
\* selected twice.
C27_SelectionBoundedOrdered ==
  Selected =>
    LET primaryList == orElse(lookup(analysis.primary), <<"openai/gpt-4o">>).items
        secondaryList == orElse(lookup(analysis.secondary), <<>>).items
        limit == CASE analysis.complexity = "low" -> 1
                   [] analysis.complexity = "medium" -> 2
                   [] analysis.complexity = "high" -> 3
                   [] OTHER -> 1
        Available(m) == \E k \in 1..Len(models) : models[k] = m
        primaries == ChosenFor(<<"Selected for ", analysis.primary, " tasks">>)
        secondaries == ChosenFor(<<"Secondary specialist for ", analysis.secondary>>)
        defaults == ChosenFor(<<"Default model">>)
        selectedModels == [k \in 1..Len(specialists) |-> specialists[k].model]
    IN  /\ Len(specialists) <= limit
        /\ \A k \in 1..Len(primaries) : Available(primaries[k])
        /\ \A k \in 1..Len(secondaries) : Available(secondaries[k])
        /\ selectedModels = primaries \o secondaries \o defaults
        /\ primaries = slice0(SelectSeq(primaryList, Available), limit)
        /\ InOrderOf(secondaries, secondaryList)
        /\ \A i, j \in 1..Len(specialists) :
             i # j => specialists[i].model # specialists[j].model

\* a high-complexity prompt: two models of the primary list in its order, then
\* the model of the secondary list that was not chosen yet (deepseek-r1, which
\* both lists rank, is not taken again)
C27_Witness ==
  /\ Selected
  /\ analysis.complexity = "high"
  /\ analysis.primary = "coding"
  /\ analysis.secondary = "debugging"
  /\ models = << "openai/gpt-4o", "deepseek/deepseek-r1", "anthropic/claude-opus-4" >>
  /\ [k \in 1..Len(specialists) |-> specialists[k].model]
       = << "anthropic/claude-opus-4", "deepseek/deepseek-r1", "openai/gpt-4o" >>

\* selectSpecialists has run and returned
SelectionRan ==
  /\ Classified
  /\ Routed
  /\ ~(Threw /\ result.at = "specialist_select")

\* C28: when no model of the primary or of the secondary candidate list is in
\* the available list and that list is not empty, exactly one model is selected,
\* the first available one, with the reason 'Default model'. Each selected model
\* is called once, in the order of the selection, with the bare prompt as the
\* only message, and with useContext not false its response is in the store,
\* tagged with the model and the routing reason, before the next specialist is
\* called and before orchestrate returns.
C28_FallbackAndSpecialistCalls ==
  /\ [](SelectionRan
        => LET primaryList == orElse(lookup(analysis.primary), <<"openai/gpt-4o">>).items
               secondaryList == orElse(lookup(analysis.secondary), <<>>).items
               candidates == Range(primaryList) \cup Range(secondaryList)
           IN  /\ (candidates \cap Range(models) = {} /\ models # <<>>)
                    => specialists = << [model |-> models[1], reason |-> <<"Default model">>] >>
               /\ Len(calls) <= 1 + Len(specialists)
               /\ Returned => Len(calls) = 1 + Len(specialists)
               /\ \A i \in 2..Len(calls) :
                    /\ calls[i].model = specialists[i - 1].model
                    /\ calls[i].messages = << [role |-> "user", content |-> request.prompt] >>
               /\ (Returned /\ UsesContext(request) /\ specialists # <<>>)
                    => /\ Len(messages) >= 1
                       /\ LastMessages(1)[1].content = outcomes[Len(calls)].text
                       /\ LastMessages(1)[1].model = specialists[Len(specialists)].model)
  /\ [][(/\ request.strategy = "specialist"
         /\ UsesContext(request)
         /\ Len(calls) >= 2
         /\ Len(calls') = Len(calls) + 1)
        => /\ Len(messages) >= 1
           /\ LastMessages(1) =
                << Message(currentConversationId, "assistant", outcomes[Len(calls)].text,
                           specialists[Len(calls) - 1].model,
                           << <<"reason">> \o specialists[Len(calls) - 1].reason >>) >>]_vars

\* the second of two specialists is being called, the answer of the first is
\* in the store
C28_Witness ==
  /\ request.strategy = "specialist"
  /\ UsesContext(request)
  /\ pc = "specialist_await"
  /\ Len(specialists) = 2
  /\ Len(calls) = 3
  /\ messages[Len(messages)].model = specialists[1].model

\* none of the candidates is available: the first available model is called
C28_FallbackWitness ==
  /\ SelectionRan
  /\ Returned
  /\ analysis.primary = "analysis"
  /\ models = << "anthropic/claude-opus-4", "deepseek/deepseek-v3" >>
  /\ specialists = << [model |-> "anthropic/claude-opus-4", reason |-> <<"Default model">>] >>
  /\ Len(calls) = 2

\* C29: once the strategy has completed, orchestrate sets result.conversationId
\* to the current conversation identifier of the store as it is at that
\* moment, the rest of the result is what the strategy returned, and the read
\* changes neither the pointer nor any conversation, message or cache entry.
C29_ConversationIdRead ==
  /\ [](Returned => result.conversationId = Some(currentConversationId))
  /\ [][pc = "orchestrate_getSummary"
        => /\ UNCHANGED storeVars
           /\ result.conversationId = None
           /\ result'.status = "ok"
                => result' = [result EXCEPT !.conversationId = Some(currentConversationId)]]_vars

\* a Sequential run with context has returned: the identifier is attached and
\* the messages it wrote are still in the store and in the cache
C29_Witness ==
  /\ Returned
  /\ request.strategy = "sequential"
  /\ UsesContext(request)
  /\ N = 2
  /\ result.conversationId = Some(currentConversationId)
  /\ Len(lRange(currentConversationId)) = 3
  /\ Len(messages) = 3

\* every ProviderResponse of the result: its responses, and those of its rounds
ResultResponses ==
  (IF result.responses # None THEN Range(result.responses[1]) ELSE {})
  \cup (IF result.rounds # None
        THEN UNION { Range(result.rounds[1][r].responses) : r \in 1..Len(result.rounds[1]) }
        ELSE {})

\* the response is in the store as an assistant message tagged with its model
Persisted(r) ==
  \E j \in 1..Len(messages) :
     /\ messages[j].role = "assistant"
     /\ messages[j].content = r.response
     /\ messages[j].model = r.model

\* C30 as stated: with useContext not false, for each of the five strategies
\* every ProviderResponse of the returned result is in the store as an
\* assistant message tagged with its model when orchestrate returns.
C30_Original ==
  (Returned /\ UsesContext(request) /\ request.strategy \in Strategies)
  => \A r \in ResultResponses : Persisted(r)

\* C30 (amended): with useContext not false, when orchestrate returns, every
\* ProviderResponse of a Sequential or Specialist result is in the store as an
\* assistant message tagged with its model, the messages being the newest of
\* the store in the order of the responses; no ProviderResponse of a Parallel,
\* Consensus or Debate result is in the store, which holds only the derived
\* text of these strategies.
C30_ResponsesPersisted ==
  (Returned /\ UsesContext(request) /\ request.strategy \in Strategies)
  => IF request.strategy \in {"sequential", "specialist"}
     THEN LET resp == result.responses[1]
          IN  /\ Len(messages) >= Len(resp)
              /\ \A k \in 1..Len(resp) :
                   LET m == LastMessages(Len(resp))[k]
                   IN  /\ m.role = "assistant"
                       /\ m.content = resp[k].response
                       /\ m.model = resp[k].model
     ELSE \A r \in ResultResponses : ~Persisted(r)

\* a Specialist run of two specialists has returned with both answers stored
C30_Witness ==
  /\ Returned
  /\ UsesContext(request)
  /\ request.strategy = "specialist"
  /\ Len(result.responses[1]) = 2
  /\ \A r \in ResultResponses : Persisted(r)

\* a Parallel run has returned two responses and stored only its synthesis
C30_ParallelWitness ==
  /\ Returned
  /\ UsesContext(request)
  /\ request.strategy = "parallel"
  /\ Len(result.responses[1]) = 2
  /\ messages[Len(messages)].model = "synthesis"
  /\ \A r \in ResultResponses : ~Persisted(r)

\* the most provider calls one orchestrate call of the strategy issues
CallBudget ==
  CASE request.strategy = "sequential" -> N
    [] request.strategy = "parallel" -> N + 1
    [] request.strategy = "debate" -> N * DebateRoundCount + 1
    [] request.strategy = "consensus" -> N + 2
    [] request.strategy = "specialist" -> 1 + Len(specialists)
    [] OTHER -> 0

\* C31: no provider call is retried. Within one orchestrate call the number of
\* provider calls is at most N for Sequential, N + 1 for Parallel,
\* N * maxRounds + 1 for Debate, N + 2 for Consensus and 1 plus the number of
\* selected specialists for Specialist, and it is exactly that when orchestrate
\* returns a result; a call that failed in Sequential, Debate or Specialist is
\* the last call, and the first N calls of Parallel and Consensus go to the N
\* models, one each.
C31_NoRetry ==
  Called =>
    /\ request.strategy = "specialist" /\ ~SelectionRan => Len(calls) <= 1
    /\ ~(request.strategy = "specialist" /\ ~SelectionRan) => Len(calls) <= CallBudget
    /\ Returned => Len(calls) = CallBudget
    /\ request.strategy \in {"sequential", "debate", "specialist"}
         => \A k \in DOMAIN outcomes : ~outcomes[k].ok => k = Len(calls)
    /\ request.strategy \in {"parallel", "consensus"}
         => \A k \in 1..Len(calls) :
              IF k <= N THEN calls[k].step = "model" /\ calls[k].model = models[k]
              ELSE calls[k].step # "model"

\* a Consensus run of two models has returned after its four calls, one of
\* which failed and was not repeated
C31_Witness ==
  /\ Returned
  /\ request.strategy = "consensus"
  /\ N = 2
  /\ Len(calls) = 4
  /\ ~outcomes[1].ok

\* C32: the cache is coherent with the durable store: after any sequence of
\* addMessage, getConversationHistory, startNewConversation and cache expiry,
\* a getConversationHistory that succeeds on a conversation of at most limit
\* messages returns exactly the messages PostgreSQL holds for it, in the same
\* order; a list re-created by addMessage after it expired or before it was ever
\* filled hides no older message.
C32_CacheCoherent ==
  (/\ "op" \in DOMAIN result
   /\ result.op = "getConversationHistory"
   /\ result.status = "ok"
   /\ Len(rowsOf(messages, result.conversationId)) <= result.limit)
  => result.value = rowsOf(messages, result.conversationId)

\* C35: a startNewConversation that fails (its INSERT or its cache delete
\* raises) leaves the current-conversation pointer where it was: the pointer is
\* not the identifier the failed call generated, and it names the conversation
\* that was current before, so that a later addMessage goes there.
C35_FailedStartKeepsPointer ==
  (/\ "op" \in DOMAIN result
   /\ result.op = "startNewConversation"
   /\ result.status # "ok")
  => currentConversationId # result.conversationId

\* C36: an orchestrate call that fails because its strategy is not recognized
\* leaves the store as it was when the call started (empty: a call starts only
\* on a store without messages): no user message and no other message has been
\* appended, and no Redis list created, even when useContext is not false.
C36_UnknownStrategyNoWrites ==
  (Threw /\ result.error = "Unknown orchestration strategy")
  => messages = <<>> /\ cache = << >>

\* how many messages of the list are the user message holding the prompt
PromptCount(msgs) ==
  Cardinality({ k \in 1..Len(msgs) : msgs[k] = [role |-> "user", content |-> request.prompt] })

\* C37: in Sequential (first model) and Parallel with useContext not false the
\* message list sent to a model holds the user prompt of the call exactly once:
\* the prompt the call has just appended to the store does not come in a second
\* time through the history.
C37_PromptOnce ==
  (request.strategy \in {"sequential", "parallel"} /\ UsesContext(request))
  => \A i \in 1..Len(calls) :
       (calls[i].step = "model" /\ (request.strategy = "sequential" => i = 1))
         => PromptCount(calls[i].messages) = 1

\* C38: Specialist with the request's models omitted, so that the default
\* models are the available list: for every classification whose primary
\* category is one of the six of the taxonomy, at least one selected model is of
\* the ranked list of that category, so the routing does not end in the
\* 'Default model' fallback.
C38_DefaultsReachSpecialists ==
  (/\ request.strategy = "specialist"
   /\ request.models = None
   /\ SelectionRan
   /\ analysis.primary \in Taxonomy)
  => /\ \E k \in 1..Len(specialists) :
          specialists[k].model \in Range(specialistMap[analysis.primary])
     /\ \A k \in 1..Len(specialists) : specialists[k].reason # <<"Default model">>

\* C40: provided every provider call and every store operation it issues
\* eventually settles, every orchestrate call eventually returns a result or an
\* error, for each strategy, model list and maxRounds.
C40_EventuallyReturns == (pc \notin {"idle", "done"}) ~> (pc = "done")

\* a two-round debate of two models has gone through its five calls and returned
C40_Witness ==
  /\ Returned
  /\ request.strategy = "debate"
  /\ N = 2
  /\ DebateRoundCount = 2
  /\ Len(calls) = 5
  /\ DOMAIN outcomes = 1..5

\* C33: whenever a tool call proceeds past ensureInitialized, the provider, the
\* contextManager (Redis connected, the current conversation set up in
\* PostgreSQL) and the orchestrator are all initialized, also when an earlier
\* initialization attempt failed.
C33_InitializedPastEnsure ==
  (toolCall.name # NoToolCall.name /\ pc \notin {"idle", "ensureInitialized", "done"})
  => /\ initialized = "full"
     /\ currentConversationId \in conversations

\* C34 as stated: all the messages one orchestrate call writes go to one and the
\* same conversation, and result.conversationId names that conversation, whatever
\* new_conversation calls run while the orchestrate call is waiting (the store
\* holds no message when the call starts, so every message is one it wrote).
C34_Original ==
  (Returned /\ UsesContext(request))
  => \A j \in 1..Len(messages) : Some(messages[j].conversationId) = result.conversationId

\* C34: every message an orchestrate call writes is appended to the conversation
\* that is current at the moment of that write, and result.conversationId names
\* the conversation that is current when the call returns, whatever
\* new_conversation calls run while the orchestrate call is waiting.
C34_WritesFollowPointer ==
  /\ [][\A j \in (Len(messages) + 1)..Len(messages') :
          messages'[j].conversationId = currentConversationId']_vars
  /\ []((Returned /\ UsesContext(request))
        => result.conversationId = Some(currentConversationId))

\* a returned call whose messages lie in two conversations
C34_Witness ==
  /\ Returned /\ UsesContext(request)
  /\ Len(messages) >= 2
  /\ messages[1].conversationId # messages[Len(messages)].conversationId
  /\ result.conversationId = Some(messages[Len(messages)].conversationId)

\* C39: the Redis list of a conversation never holds a persisted message twice
\* and holds its messages in the order PostgreSQL has them, whatever way
\* getConversationHistory calls that miss the cache and addMessage calls on the
\* conversation interleave.
C39_CacheOnceInOrder ==
  \A c \in DOMAIN cache : InOrderOf(cache[c], rowsOf(messages, c))

====
